---- MODULE Spec2Model ----
(***************************************************************************)
(* CryoDecoder: a TLV serialization framework.  The model covers the type  *)
(* registry with its recursive type resolution (CodecRegistry), the codec  *)
(* tree (primitive and composite codecs) and the framing of Encoder and    *)
(* Decoder, all of src/CryoDecoder.go.                                     *)
(*                                                                         *)
(* A Go type is a sequence of tokens in prefix form: <<"int32">>,          *)
(* <<"ptr","int32">>, <<"slice","int32">>, <<"array2","int32">>,           *)
(* <<"map","string","int32">>, <<"Counter">> (a named struct).  The empty  *)
(* sequence is the nil reflect.Type (the type of the untyped nil).         *)
(*                                                                         *)
(* A Go value is a record [t, n, b, s]: t its dynamic type, n its number   *)
(* (integers, bool as 0/1) or its nil flag (pointer, slice, map: 0 = nil), *)
(* b its bytes (string contents, float bit patterns), s its parts (the     *)
(* pointee, the elements, the fields in declaration order, the map entries *)
(* as key, value, key, value ... in ascending order of the encoded key).   *)
(***************************************************************************)
EXTENDS Integers, Sequences, FiniteSets, TLC

\* codecs, types, nextStructTag: the fields of the shared CodecRegistry
\* calls:  how many calls have changed the registry so far
\* buffer: the Encoder's internal buffer
\* enc:    the name of the value last handed to Encoder.Encode and how the
\*         call ended
\* frame:  the bytes the last Encoder.Encode returned (nil as the empty
\*         sequence)
\* reader: the unread bytes of the Decoder's byte source
\* ret:    the last call of the registry, of a codec or of the Decoder: its
\*         arguments and what it returned
\* held:   a slice an earlier Encoder.Encode returned and the caller kept,
\*         with the bytes it had when it was returned
\* goroutines: the two goroutines that share the registry: where each is in
\*         its GetTag call and the locals of the call
VARIABLES codecs, types, nextStructTag, calls, buffer, enc, frame, reader, ret, held,
          goroutines

vars == <<codecs, types, nextStructTag, calls, buffer, enc, frame, reader, ret, held,
          goroutines>>

(***************************************************************************)
(* Bounds of the model.                                                    *)
(***************************************************************************)
\* the depth of the pointer types **...*T of the fields of the struct Wide
MaxPtrDepth == 14
\* the longest slice among the encoded values
MaxElems == 2
\* calls that change the registry in one run
MaxCalls == 2
\* the length of the long string, one more than a 16-bit length can state
BigLen == 65536

\* the longest prefix, short of the whole frame, handed to the Decoder
MaxCut == 16

(***************************************************************************)
(* Program constants.                                                      *)
(***************************************************************************)
BOF == 171
EOF == 205
FirstStructTag == 200
ByteMod == 256
LengthOfLength == 2
U16Mod == 65536

(***************************************************************************)
(* Bytes.                                                                  *)
(***************************************************************************)
Pow256(k) == CASE k = 0 -> 1 [] k = 1 -> 256 [] k = 2 -> 65536 [] k = 3 -> 16777216

\* binary.BigEndian.PutUintN of u, 0 <= u < 2^31, on w <= 4 bytes
BytesOf(u, w) == [i \in 1..w |-> (u \div Pow256(w - i)) % 256]

\* big-endian value of at most 3 bytes, or of 4 bytes below 2^31
BE(bs) ==
    LET w == Len(bs)
        F[i \in 0..w] == IF i = 0 THEN 0 ELSE F[i - 1] * 256 + bs[i]
    IN  F[w]

\* uint16(n) written big-endian: binary.Write(.., uint16(len(x)))
U16(n) == BytesOf(n % U16Mod, 2)

\* uint32(n) written big-endian, n < 2^31
U32(n) == BytesOf(n, 4)

\* a uint32 read big-endian; values from 2^31 on exceed every length of the
\* model and are read as 2^31 - 1, which exceeds every length as well
U32Val(bs) == IF bs[1] >= 128 THEN 2147483647 ELSE BE(bs)

\* the low 32 bits of v in two's complement: uint32(int32(v))
Low32(v) ==
    IF v >= 0 THEN BytesOf(v, 4)
    ELSE LET u == (v + 2147483647) + 1
         IN  [BytesOf(u, 4) EXCEPT ![1] = @ + 128]

\* uintN(v) on w bytes, big-endian, for v in the range of a w-byte integer
IntBytes(v, w) ==
    CASE w = 8 -> (IF v >= 0 THEN <<0, 0, 0, 0>> ELSE <<255, 255, 255, 255>>) \o Low32(v)
      [] w = 4 -> Low32(v)
      [] OTHER -> BytesOf(v % Pow256(w), w)

\* int32(u) of 4 bytes
Signed32(bs) ==
    IF bs[1] >= 128
    THEN (BE(<<bs[1] - 128, bs[2], bs[3], bs[4]>>) - 2147483647) - 1
    ELSE BE(bs)

\* the integer a fixed-width codec decodes from w bytes; 8-byte values are
\* those of the model's range (the upper four bytes are the sign extension)
IntOfBytes(bs, w, signed) ==
    CASE w = 8 -> Signed32(SubSeq(bs, 5, 8))
      [] w = 4 -> IF signed THEN Signed32(bs) ELSE BE(bs)
      [] OTHER -> IF signed /\ bs[1] >= 128 THEN BE(bs) - Pow256(w) ELSE BE(bs)

Rep(x, n) == [i \in 1..n |-> x]

\* lexicographic order on byte sequences, shorter first
RECURSIVE BytesLess(_, _)
BytesLess(a, b) ==
    IF Len(a) # Len(b) THEN Len(a) < Len(b)
    ELSE IF Len(a) = 0 THEN FALSE
    ELSE IF a[1] # b[1] THEN a[1] < b[1]
    ELSE BytesLess(Tail(a), Tail(b))

EmptyFn == [x \in {} |-> 0]

Put(f, k, v) == [x \in DOMAIN f \cup {k} |-> IF x = k THEN v ELSE f[x]]

(***************************************************************************)
(* Types (reflect.Type).                                                   *)
(***************************************************************************)
NilType == <<>>

PrimNames == {"int32", "string", "float64", "int64", "bool", "int", "int8",
              "int16", "uint", "uint8", "uint16", "uint32", "uint64",
              "uintptr", "float32", "complex64", "complex128"}

StructNames == {"Counter", "Rec", "Pair", "Outer", "Hidden", "Empty", "Wide", "Holder",
                "Node", "Tree", "Index", "Point", "Mixed"}

Fld(nm, ty, ex) == [name |-> nm, type |-> ty, exported |-> ex]

\* the pointer type of depth k over t: *...*t
Ptrs(k, t) == [i \in 1..k |-> "ptr"] \o t

\* the struct types of the model, each with its fields in declaration order
StructFields(nm) ==
    CASE nm = "Counter" -> << Fld("Count", <<"int32">>, TRUE) >>
      [] nm = "Rec"     -> << Fld("ID", <<"int32">>, TRUE),
                              Fld("Name", <<"string">>, TRUE),
                              Fld("P", <<"ptr", "int32">>, TRUE),
                              Fld("L", <<"slice", "int32">>, TRUE) >>
      [] nm = "Pair"    -> << Fld("A", <<"slice", "int8">>, TRUE),
                              Fld("B", <<"slice", "int8">>, TRUE) >>
      [] nm = "Outer"   -> << Fld("In", <<"Counter">>, TRUE),
                              Fld("Flag", <<"bool">>, TRUE) >>
      [] nm = "Hidden"  -> << Fld("x", <<"int32">>, FALSE) >>
      [] nm = "Empty"   -> << >>
      [] nm = "Holder"  -> << Fld("V", <<"any">>, TRUE) >>
      [] nm = "Node"    -> << Fld("Value", <<"int32">>, TRUE),
                              Fld("Next", <<"ptr", "Node">>, TRUE) >>
      [] nm = "Tree"    -> << Fld("Kids", <<"slice", "Tree">>, TRUE) >>
      [] nm = "Index"   -> << Fld("Sub", <<"map", "string", "Index">>, TRUE) >>
      [] nm = "Point"   -> << Fld("X", <<"int32">>, TRUE),
                              Fld("Name", <<"string">>, TRUE) >>
      [] nm = "Mixed"   -> << Fld("L", <<"slice", "int32">>, TRUE),
                              Fld("C", <<"chan">>, TRUE) >>
      [] nm = "Wide"    -> << Fld("A", Ptrs(MaxPtrDepth, <<"int32">>), TRUE),
                              Fld("B", Ptrs(MaxPtrDepth, <<"int8">>), TRUE),
                              Fld("C", Ptrs(MaxPtrDepth, <<"string">>), TRUE),
                              Fld("D", Ptrs(MaxPtrDepth + 1, <<"bool">>), TRUE) >>

\* reflect.Type.Kind(); the nil type has none (the call panics)
Kind(t) ==
    CASE Head(t) = "ptr" -> "ptr"
      [] Head(t) = "slice" -> "slice"
      [] Head(t) \in {"array0", "array2"} -> "array"
      [] Head(t) = "map" -> "map"
      [] Head(t) \in StructNames \cup {"Location", "Time"} -> "struct"
      [] Head(t) = "any" -> "interface"
      [] Head(t) = "chan" -> "chan"
      [] OTHER -> Head(t)

\* reflect.Type.Elem() of a pointer, slice or array type; of a map type its value type
Elem(t) == IF Head(t) = "map" THEN SubSeq(t, 3, Len(t)) ELSE Tail(t)

\* reflect.Type.Key() of a map type (the model's key types are one token long)
Key(t) == <<t[2]>>

\* reflect.Type.Len() of an array type
ArrayLen(t) == IF Head(t) = "array2" THEN 2 ELSE 0

\* t.PkgPath() == "time" && t.Name() == "Location"
IsLocation(t) == t = <<"Location">>

\* t.Implements(encoding.BinaryMarshaler): time.Time has MarshalBinary
ImplementsMarshaler(t) == t = <<"Time">>

PtrType(t) == <<"ptr">> \o t
SliceType(t) == <<"slice">> \o t

(***************************************************************************)
(* Values (interface{} holding a value of dynamic type t).                 *)
(***************************************************************************)
Val(t, n, b, s) == [t |-> t, n |-> n, b |-> b, s |-> s]

\* the untyped nil interface value
NilValue == Val(NilType, 0, <<>>, <<>>)

Num(nm, x) == Val(<<nm>>, x, <<>>, <<>>)
I32(x) == Num("int32", x)
I8(x) == Num("int8", x)
Bool(x) == Num("bool", IF x THEN 1 ELSE 0)
Str(bs) == Val(<<"string">>, 0, bs, <<>>)
Bits(nm, bs) == Val(<<nm>>, 0, bs, <<>>)
PtrTo(v) == Val(PtrType(v.t), 1, <<>>, <<v>>)
NilPtr(et) == Val(PtrType(et), 0, <<>>, <<>>)
SliceOf(et, elems) == Val(SliceType(et), 1, <<>>, elems)
NilSlice(et) == Val(SliceType(et), 0, <<>>, <<>>)
ArrayOf(t, elems) == Val(t, 0, <<>>, elems)
MapOf(t, kvs) == Val(t, 1, <<>>, kvs)
NilMap(t) == Val(t, 0, <<>>, <<>>)
StructOf(nm, fs) == Val(<<nm>>, 0, <<>>, fs)

\* reflect.Zero(t) / reflect.New(t).Elem()
RECURSIVE Zero(_)
Zero(t) ==
    CASE Kind(t) = "struct" /\ Head(t) \in StructNames ->
           StructOf(Head(t), [i \in 1..Len(StructFields(Head(t))) |->
                                 Zero(StructFields(Head(t))[i].type)])
      [] Kind(t) = "array" -> ArrayOf(t, [i \in 1..ArrayLen(t) |-> Zero(Elem(t))])
      [] Kind(t) \in {"float64", "complex64"} -> Val(t, 0, Rep(0, 8), <<>>)
      [] Kind(t) = "float32" -> Val(t, 0, Rep(0, 4), <<>>)
      [] Kind(t) = "complex128" -> Val(t, 0, Rep(0, 16), <<>>)
      [] OTHER -> Val(t, 0, <<>>, <<>>)

(***************************************************************************)
(* Codecs.  A codec object is a record: kind names its Go type, typ is     *)
(* elemType / valType / structType / typ, ktyp is keyType, sub holds the   *)
(* codecs it wraps (elemCodec, or keyCodec and valCodec), alen is arrayLen *)
(* and fields is the struct descriptor (name, typeTag).                    *)
(***************************************************************************)
Codec(kind, typ, ktyp, sub, alen, fields) ==
    [kind |-> kind, typ |-> typ, ktyp |-> ktyp, sub |-> sub, alen |-> alen, fields |-> fields]

Plain(kind) == Codec(kind, NilType, NilType, <<>>, 0, <<>>)
PointerCodec(elemCodec, elemType) == Codec("PointerCodec", elemType, NilType, <<elemCodec>>, 0, <<>>)
SliceCodec(elemCodec, elemType) == Codec("SliceCodec", elemType, NilType, <<elemCodec>>, 0, <<>>)
ArrayCodec(elemCodec, elemType, arrayLen) ==
    Codec("ArrayCodec", elemType, NilType, <<elemCodec>>, arrayLen, <<>>)
MapCodec(keyCodec, valCodec, keyType, valType) ==
    Codec("MapCodec", valType, keyType, <<keyCodec, valCodec>>, 0, <<>>)
MarshalerCodec(typ) == Codec("MarshalerCodec", typ, NilType, <<>>, 0, <<>>)
NewStructCodec(structType) == Codec("StructCodec", structType, NilType, <<>>, 0, <<>>)

\* StructCodec.RegisterField: the descriptor grows by one (name, typeTag) entry
RegisterField(codec, fieldName, typeTag) ==
    [codec EXCEPT !.fields = Append(@, [name |-> fieldName, typeTag |-> typeTag])]

\* the fixed-width integer codecs: Go type, width in bytes, signedness
IntCodecs ==
    [Int32Codec |-> [t |-> "int32", w |-> 4, signed |-> TRUE],
     Int64Codec |-> [t |-> "int64", w |-> 8, signed |-> TRUE],
     IntCodec |-> [t |-> "int", w |-> 8, signed |-> TRUE],
     Int8Codec |-> [t |-> "int8", w |-> 1, signed |-> TRUE],
     Int16Codec |-> [t |-> "int16", w |-> 2, signed |-> TRUE],
     UintCodec |-> [t |-> "uint", w |-> 8, signed |-> FALSE],
     Uint8Codec |-> [t |-> "uint8", w |-> 1, signed |-> FALSE],
     Uint16Codec |-> [t |-> "uint16", w |-> 2, signed |-> FALSE],
     Uint32Codec |-> [t |-> "uint32", w |-> 4, signed |-> FALSE],
     Uint64Codec |-> [t |-> "uint64", w |-> 8, signed |-> FALSE],
     UintptrCodec |-> [t |-> "uintptr", w |-> 8, signed |-> FALSE]]

\* the float and complex codecs: Go type and width; a value is its bit pattern
BitsCodecs ==
    [Float32Codec |-> [t |-> "float32", w |-> 4],
     Float64Codec |-> [t |-> "float64", w |-> 8],
     Complex64Codec |-> [t |-> "complex64", w |-> 8],
     Complex128Codec |-> [t |-> "complex128", w |-> 16]]

(***************************************************************************)
(* The registry: R = [codecs, types, next] stands for the three fields of  *)
(* CodecRegistry inside the operators; the variables codecs, types and     *)
(* nextStructTag hold them between calls.                                  *)
(***************************************************************************)
Reg(cs, ts, nx) == [codecs |-> cs, types |-> ts, next |-> nx]

\* NewCodecRegistry
NewCodecRegistry == Reg(EmptyFn, EmptyFn, FirstStructTag)

\* r.codecs[tag] = codec; r.types[reflect.TypeOf(exampleType)] = tag
RegisterCodec(R, tag, codec, typ) ==
    [R EXCEPT !.codecs = Put(@, tag, codec), !.types = Put(@, typ, tag)]

\* a counter that stays where it is
NextTagSame(n) == n

\* r.nextStructTag++ on a byte
NextTag(n) == (n + 1) % ByteMod

\* tag := r.nextStructTag; r.nextStructTag++; r.RegisterCodec(tag, codec, zero)
BindNext(R, codec, typ) ==
    [RegisterCodec(R, R.next, codec, typ) EXCEPT !.next = NextTag(R.next)]

\* the table of RegisterPrimitives: tag, codec, exemplar type
Primitives ==
    << <<1, Plain("Int32Codec"), <<"int32">> >>,
       <<2, Plain("StringCodec"), <<"string">> >>,
       <<3, Plain("Float64Codec"), <<"float64">> >>,
       <<4, Plain("Int64Codec"), <<"int64">> >>,
       <<5, Plain("BoolCodec"), <<"bool">> >>,
       <<6, Plain("IntCodec"), <<"int">> >>,
       <<7, Plain("Int8Codec"), <<"int8">> >>,
       <<8, Plain("Int16Codec"), <<"int16">> >>,
       <<9, Plain("UintCodec"), <<"uint">> >>,
       <<10, Plain("Uint8Codec"), <<"uint8">> >>,
       <<11, Plain("Uint16Codec"), <<"uint16">> >>,
       <<12, Plain("Uint32Codec"), <<"uint32">> >>,
       <<13, Plain("Uint64Codec"), <<"uint64">> >>,
       <<14, Plain("UintptrCodec"), <<"uintptr">> >>,
       <<15, Plain("Float32Codec"), <<"float32">> >>,
       <<16, Plain("Complex64Codec"), <<"complex64">> >>,
       <<17, Plain("Complex128Codec"), <<"complex128">> >>,
       <<18, Plain("InterfaceCodec"), <<"slice", "any">> >>,
       <<19, Plain("MapStringAnyCodec"), <<"map", "string", "any">> >>,
       <<20, Plain("LocationCodec"), <<"Location">> >> >>

\* RegisterPrimitives: the twenty RegisterCodec calls in order
RegisterPrimitives(R) ==
    LET F[i \in 0..Len(Primitives)] ==
            IF i = 0 THEN R
            ELSE RegisterCodec(F[i - 1], Primitives[i][1], Primitives[i][2], Primitives[i][3])
    IN  F[Len(Primitives)]

\* what a registry call returns: the registry after it, how it ended
\* ("ok", "err", "panic", or "overflow" for a recursion that never returns),
\* and the tag and type of a successful resolution
Res(R, st, tag, typ) == [R |-> R, st |-> st, tag |-> tag, typ |-> typ]

\* GetCodec: the codec bound to the tag, if any
HasCodec(R, tag) == tag \in DOMAIN R.codecs
GetCodec(R, tag) == R.codecs[tag]

RECURSIVE resolveType(_, _, _)
RECURSIVE RegisterStruct(_, _, _)
RECURSIVE ResolveFields(_, _, _, _, _)
RECURSIVE ResolveField(_, _, _, _, _)

\* the tail of the wrapper branches, e being the resolved element: fetch the
\* element's codec, bind the next tag to the wrapper codec
BindWrapper(t, e) ==
    LET elemCodec == GetCodec(e.R, e.tag)
        codec == CASE Kind(t) = "ptr" -> PointerCodec(elemCodec, e.typ)
                   [] Kind(t) = "slice" -> SliceCodec(elemCodec, e.typ)
                   [] Kind(t) = "array" -> ArrayCodec(elemCodec, e.typ, ArrayLen(t))
    IN  IF e.st # "ok" THEN Res(e.R, e.st, 0, NilType)
        ELSE IF ~HasCodec(e.R, e.tag) THEN Res(e.R, "err", 0, NilType)
        ELSE Res(BindNext(e.R, codec, t), "ok", e.R.next, t)

\* the wrapper branches of resolveType (pointer, slice, array): resolve the
\* element first
ResolveWrapper(R, t, stack) == BindWrapper(t, resolveType(R, Elem(t), stack))

\* the tail of the map branch, k and v being the resolved key and value types
BindMap(t, k, v) ==
    LET codec == MapCodec(GetCodec(v.R, k.tag), GetCodec(v.R, v.tag), k.typ, v.typ)
    IN  IF k.st # "ok" THEN Res(k.R, k.st, 0, NilType)
        ELSE IF v.st # "ok" THEN Res(v.R, v.st, 0, NilType)
        ELSE IF ~HasCodec(v.R, k.tag) \/ ~HasCodec(v.R, v.tag) THEN Res(v.R, "err", 0, NilType)
        ELSE Res(BindNext(v.R, codec, t), "ok", v.R.next, t)

ResolveMapValue(t, stack, k) == BindMap(t, k, resolveType(k.R, Elem(t), stack))

\* the map branch of resolveType: key type first, then value type
ResolveMap(R, t, stack) == ResolveMapValue(t, stack, resolveType(R, Key(t), stack))

\* the struct branch of resolveType, s being what RegisterStruct returned
ResolvedStruct(t, s) ==
    IF s.st # "ok" THEN Res(s.R, s.st, 0, NilType) ELSE Res(s.R, "ok", s.tag, t)

\* a resolveType that looks a pointer, slice or array type up only after it
\* has resolved it
resolveTypeRebinding(R, t, stack) ==
    IF t = NilType THEN Res(R, "panic", 0, NilType)
    ELSE IF Kind(t) \in {"ptr", "slice", "array"} THEN ResolveWrapper(R, t, stack)
    ELSE IF t \in DOMAIN R.types THEN Res(R, "ok", R.types[t], t)
    ELSE IF Kind(t) = "map" THEN ResolveMap(R, t, stack)
    ELSE IF IsLocation(t) THEN Res(BindNext(R, Plain("LocationCodec"), t), "ok", R.next, t)
    ELSE IF ImplementsMarshaler(t) THEN Res(BindNext(R, MarshalerCodec(t), t), "ok", R.next, t)
    ELSE IF Kind(t) = "struct" THEN ResolvedStruct(t, RegisterStruct(R, t, stack))
    ELSE Res(R, "err", 0, NilType)

\* resolveType: find or create the codec of type t.  stack holds the struct
\* types whose registration is in progress on the call stack.
resolveType(R, t, stack) ==
    IF t \in DOMAIN R.types THEN Res(R, "ok", R.types[t], t)
    ELSE IF t = NilType THEN Res(R, "panic", 0, NilType)
    ELSE IF Kind(t) \in {"ptr", "slice", "array"} THEN ResolveWrapper(R, t, stack)
    ELSE IF Kind(t) = "map" THEN ResolveMap(R, t, stack)
    ELSE IF IsLocation(t) THEN Res(BindNext(R, Plain("LocationCodec"), t), "ok", R.next, t)
    ELSE IF ImplementsMarshaler(t) THEN Res(BindNext(R, MarshalerCodec(t), t), "ok", R.next, t)
    ELSE IF Kind(t) = "struct" THEN ResolvedStruct(t, RegisterStruct(R, t, stack))
    ELSE Res(R, "err", 0, NilType)

\* one round of the field loop, f being the resolved type of field i: an
\* error ends the registration, otherwise the field joins the descriptor
ResolveField(structType, i, codec, stack, f) ==
    IF f.st # "ok" THEN Res(f.R, f.st, 0, NilType)
    ELSE ResolveFields(f.R, structType, i + 1,
                       RegisterField(codec, StructFields(Head(structType))[i].name, f.tag),
                       stack)

\* the field loop of RegisterStruct from field i on, codec being the
\* descriptor built so far; after the last field the next tag is bound
ResolveFields(R, structType, i, codec, stack) ==
    LET fields == StructFields(Head(structType))
    IN  IF i > Len(fields) THEN Res(BindNext(R, codec, structType), "ok", R.next, structType)
        ELSE ResolveField(structType, i, codec, stack,
                          resolveType(R, fields[i].type, stack))

\* RegisterStruct(exampleType), t being reflect.TypeOf(exampleType).  A struct
\* type met again while its own registration is in progress is registered
\* again from its first field, and so on without end: "overflow".
RegisterStruct(R, t, stack) ==
    LET structType == IF t # NilType /\ Kind(t) = "ptr" THEN Elem(t) ELSE t
    IN  IF t = NilType THEN Res(R, "panic", 0, NilType)
        ELSE IF Kind(structType) # "struct" THEN Res(R, "err", 0, NilType)
        ELSE IF structType \in DOMAIN R.types THEN Res(R, "ok", R.types[structType], structType)
        ELSE IF \E j \in 1..Len(stack) : stack[j] = structType
             THEN Res(R, "overflow", 0, NilType)
        ELSE ResolveFields(R, structType, 1, NewStructCodec(structType),
                           Append(stack, structType))

\* a GetTag that takes a tag number on every call for a bound type
GetTagTakingTag(R, t) ==
    IF t \in DOMAIN R.types THEN Res([R EXCEPT !.next = NextTag(@)], "ok", R.types[t], t)
    ELSE resolveType(R, t, <<>>)

\* GetTag(value), t being reflect.TypeOf(value)
GetTag(R, t) ==
    IF t \in DOMAIN R.types THEN Res(R, "ok", R.types[t], t)
    ELSE resolveType(R, t, <<>>)

(***************************************************************************)
(* Codec.Encode.  Encoding threads the registry through, as InterfaceCodec *)
(* calls GetTag, which binds types on first use.  A result is the registry *)
(* after the call, how it ended and the bytes returned.  ord fixes the     *)
(* order in which range visits the entries of a map: the entries numbered  *)
(* in key order are visited in the order their numbers occur in ord.       *)
(***************************************************************************)
ERes(R, st, b) == [R |-> R, st |-> st, b |-> b]

\* reflect.Value.FieldByName(name) as an index into the fields of the type
FieldIndex(structType, nm) ==
    LET fields == StructFields(Head(structType))
    IN  CHOOSE i \in 1..Len(fields) : fields[i].name = nm

\* one part of a composite: encoded by codec c or, for a struct field, by the
\* codec bound to tag at the time the field is reached
Item(c, v, hdr, tag, hidden) == [c |-> c, v |-> v, hdr |-> hdr, tag |-> tag, hidden |-> hidden]

\* headers whose struct-field form lacks the length-of-length byte
HeaderWithoutLengthOfLength(hdr, tag, n) ==
    CASE hdr = "u32" -> U32(n)
      [] hdr = "u16" -> U16(n)
      [] hdr = "tlv" -> <<tag>> \o U16(n)

\* what precedes the encoded part: a 32-bit length, a 16-bit length, or tag,
\* length-of-length and 16-bit length
Header(hdr, tag, n) ==
    CASE hdr = "u32" -> U32(n)
      [] hdr = "u16" -> U16(n)
      [] hdr = "tlv" -> <<tag, LengthOfLength>> \o U16(n)

\* the entries of a map value in the iteration order ord
MapOrder(v, ord) ==
    LET n == Len(v.s) \div 2
        F[i \in 0..Len(ord)] ==
            IF i = 0 THEN <<>>
            ELSE IF ord[i] <= n THEN Append(F[i - 1], ord[i]) ELSE F[i - 1]
    IN  F[Len(ord)]

RECURSIVE CodecEncode(_, _, _, _)
RECURSIVE EncodeItems(_, _, _, _, _)
RECURSIVE EncodeNext(_, _, _, _, _)

\* one round of the loop, e being the encoding of part i: the first failure
\* ends the call, otherwise header and bytes are appended
EncodeNext(items, i, acc, ord, e) ==
    IF e.st # "ok" THEN ERes(e.R, e.st, <<>>)
    ELSE EncodeItems(e.R, items, i + 1,
                     acc \o Header(items[i].hdr, items[i].tag, Len(e.b)) \o e.b, ord)

\* the loop over the parts of a composite from part i on
EncodeItems(R, items, i, acc, ord) ==
    IF i > Len(items) THEN ERes(R, "ok", acc)
    ELSE IF items[i].hidden THEN ERes(R, "panic", <<>>)
    ELSE IF items[i].hdr = "tlv" /\ ~HasCodec(R, items[i].tag) THEN ERes(R, "err", <<>>)
    ELSE EncodeNext(items, i, acc, ord,
                    CodecEncode(R, IF items[i].hdr = "tlv" THEN GetCodec(R, items[i].tag)
                                   ELSE items[i].c,
                                items[i].v, ord))

\* fixed-width integer codecs: a type assertion, then PutUintN
IntEncode(R, c, v) ==
    LET d == IntCodecs[c.kind]
    IN  IF v.t # <<d.t>> THEN ERes(R, "err", <<>>) ELSE ERes(R, "ok", IntBytes(v.n, d.w))

\* float and complex codecs: a type assertion, then the bits
BitsEncode(R, c, v) ==
    IF v.t # <<BitsCodecs[c.kind].t>> THEN ERes(R, "err", <<>>) ELSE ERes(R, "ok", v.b)

BoolEncode(R, v) ==
    IF v.t # <<"bool">> THEN ERes(R, "err", <<>>)
    ELSE ERes(R, "ok", IF v.n = 1 THEN <<1>> ELSE <<0>>)

StringEncode(R, v) ==
    IF v.t # <<"string">> THEN ERes(R, "err", <<>>) ELSE ERes(R, "ok", v.b)

LocationEncode(R, v) ==
    IF v.t # <<"Location">> THEN ERes(R, "err", <<>>) ELSE ERes(R, "ok", v.b)

\* StructCodec.Encode: a pointer is dereferenced once, the type must be the
\* registered one, then one TLV per descriptor entry
StructEncode(R, c, v, ord) ==
    LET isPtr == v.t # NilType /\ Kind(v.t) = "ptr"
        valid == IF isPtr THEN v.n = 1 ELSE v.t # NilType
        val == IF isPtr /\ v.n = 1 THEN v.s[1] ELSE v
        sf == StructFields(Head(c.typ))
        items == [i \in 1..Len(c.fields) |->
                    LET k == FieldIndex(c.typ, c.fields[i].name)
                    IN  Item(Plain("byTag"), val.s[k], "tlv", c.fields[i].typeTag,
                             ~sf[k].exported)]
    IN  IF ~valid \/ val.t # c.typ THEN ERes(R, "err", <<>>)
        ELSE EncodeItems(R, items, 1, <<>>, ord)

\* the tail of InterfaceCodec.Encode, e being the payload of the dynamic type
InterfaceTLV(tag, e) ==
    IF e.st # "ok" THEN ERes(e.R, e.st, <<>>)
    ELSE ERes(e.R, "ok", <<tag>> \o U16(Len(e.b)) \o e.b)

\* InterfaceCodec.Encode after GetTag returned g.  When the codec of the
\* dynamic type is the InterfaceCodec itself the call repeats with the same
\* value without end: "overflow".
InterfaceTagged(v, ord, g) ==
    IF g.st # "ok" THEN ERes(g.R, g.st, <<>>)
    ELSE IF ~HasCodec(g.R, g.tag) THEN ERes(g.R, "err", <<>>)
    ELSE IF GetCodec(g.R, g.tag).kind = "InterfaceCodec" THEN ERes(g.R, "overflow", <<>>)
    ELSE InterfaceTLV(g.tag, CodecEncode(g.R, GetCodec(g.R, g.tag), v, ord))

\* InterfaceCodec.Encode: nil is empty; otherwise the tag of the dynamic
\* type, a 16-bit length and the payload of the codec bound to that tag
InterfaceEncode(R, v, ord) ==
    IF v = NilValue THEN ERes(R, "ok", <<>>)
    ELSE InterfaceTagged(v, ord, GetTag(R, v.t))

\* MapStringAnyCodec.Encode: count, then per entry a 16-bit length and the
\* key bytes, a 16-bit length and the InterfaceCodec payload of the value
MapStringAnyEncode(R, v, ord) ==
    LET order == MapOrder(v, ord)
        items == [j \in 1..(2 * Len(order)) |->
                    IF j % 2 = 1
                    THEN Item(Plain("StringCodec"), v.s[2 * order[(j + 1) \div 2] - 1], "u16", 0, FALSE)
                    ELSE Item(Plain("InterfaceCodec"), v.s[2 * order[j \div 2]], "u16", 0, FALSE)]
    IN  IF v.t # <<"map", "string", "any">> THEN ERes(R, "err", <<>>)
        ELSE EncodeItems(R, items, 1, U32(Len(v.s) \div 2), ord)

\* SliceCodec.Encode: only the kind is checked; count, then the elements
SliceEncode(R, c, v, ord) ==
    LET items == [i \in 1..Len(v.s) |-> Item(c.sub[1], v.s[i], "u32", 0, FALSE)]
    IN  IF v.t = NilType \/ Kind(v.t) # "slice" THEN ERes(R, "err", <<>>)
        ELSE EncodeItems(R, items, 1, U32(Len(v.s)), ord)

\* ArrayCodec.Encode: kind and length are checked; the elements, no count
ArrayEncode(R, c, v, ord) ==
    LET items == [i \in 1..Len(v.s) |-> Item(c.sub[1], v.s[i], "u32", 0, FALSE)]
    IN  IF v.t = NilType \/ Kind(v.t) # "array" THEN ERes(R, "err", <<>>)
        ELSE IF Len(v.s) # c.alen THEN ERes(R, "err", <<>>)
        ELSE EncodeItems(R, items, 1, <<>>, ord)

\* MapCodec.Encode: only the kind is checked; count, then key and value of
\* each entry in the order of rv.MapKeys()
MapEncode(R, c, v, ord) ==
    LET order == MapOrder(v, ord)
        items == [j \in 1..(2 * Len(order)) |->
                    IF j % 2 = 1
                    THEN Item(c.sub[1], v.s[2 * order[(j + 1) \div 2] - 1], "u32", 0, FALSE)
                    ELSE Item(c.sub[2], v.s[2 * order[j \div 2]], "u32", 0, FALSE)]
    IN  IF v.t = NilType \/ Kind(v.t) # "map" THEN ERes(R, "err", <<>>)
        ELSE EncodeItems(R, items, 1, U32(Len(v.s) \div 2), ord)

\* the tail of PointerCodec.Encode, e being the encoding of the pointee
PointerPayload(e) ==
    IF e.st # "ok" THEN ERes(e.R, e.st, <<>>) ELSE ERes(e.R, "ok", <<1>> \o e.b)

\* PointerCodec.Encode: the untyped nil is the byte 0; rv.Elem().Interface()
\* of a nil pointer panics; otherwise the byte 1 and the pointee
PointerEncode(R, c, v, ord) ==
    IF v = NilValue THEN ERes(R, "ok", <<0>>)
    ELSE IF Kind(v.t) # "ptr" THEN ERes(R, "err", <<>>)
    ELSE IF v.n = 0 THEN ERes(R, "panic", <<>>)
    ELSE PointerPayload(CodecEncode(R, c.sub[1], v.s[1], ord))

\* MarshalerCodec.Encode: any BinaryMarshaler passes the assertion, whatever
\* c.typ; MarshalBinary returns the value's bytes
MarshalerEncode(R, c, v) ==
    IF ~ImplementsMarshaler(v.t) THEN ERes(R, "err", <<>>)
    ELSE ERes(R, "ok", U16(Len(v.b)) \o v.b)

CodecEncode(R, c, v, ord) ==
    CASE c.kind \in DOMAIN IntCodecs -> IntEncode(R, c, v)
      [] c.kind \in DOMAIN BitsCodecs -> BitsEncode(R, c, v)
      [] c.kind = "BoolCodec" -> BoolEncode(R, v)
      [] c.kind = "StringCodec" -> StringEncode(R, v)
      [] c.kind = "LocationCodec" -> LocationEncode(R, v)
      [] c.kind = "StructCodec" -> StructEncode(R, c, v, ord)
      [] c.kind = "InterfaceCodec" -> InterfaceEncode(R, v, ord)
      [] c.kind = "MapStringAnyCodec" -> MapStringAnyEncode(R, v, ord)
      [] c.kind = "SliceCodec" -> SliceEncode(R, c, v, ord)
      [] c.kind = "ArrayCodec" -> ArrayEncode(R, c, v, ord)
      [] c.kind = "MapCodec" -> MapEncode(R, c, v, ord)
      [] c.kind = "PointerCodec" -> PointerEncode(R, c, v, ord)
      [] c.kind = "MarshalerCodec" -> MarshalerEncode(R, c, v)

(***************************************************************************)
(* Codec.Decode.  Decoding only reads the registry.  A result is how the   *)
(* call ended and the value returned.                                      *)
(***************************************************************************)
DRes(st, v) == [st |-> st, v |-> v]
DErr == DRes("err", NilValue)
DPanic == DRes("panic", NilValue)

\* reflect.MakeSlice(sliceType, int(count), int(count)) for a count of 2^31
\* or more, made before any element is read: where int has 32 bits the
\* length is negative and MakeSlice panics; where it has 64 bits the runtime
\* either maps the 2^31 elements or more, and the element loop then fails on
\* the short payload, or ends the process.  The call that returns chooses.
DAlloc == DRes("alloc", NilValue)

\* how a call ends whose codec ended with st
MakeSliceOutcomes(st) == IF st = "alloc" THEN {"err", "panic"} ELSE {st}

IntTypeOf(t) ==
    IF \E k \in DOMAIN IntCodecs : <<IntCodecs[k].t>> = t
    THEN {IntCodecs[k] : k \in {x \in DOMAIN IntCodecs : <<IntCodecs[x].t>> = t}}
    ELSE {}

\* reflect: rv.Type().ConvertibleTo(target), rv.Convert(target), for the kinds
\* of the model: identical types, any type to interface{}, integer to integer
ConvertibleTo(v, target) ==
    \/ v.t = target
    \/ target = <<"any">>
    \/ IntTypeOf(v.t) # {} /\ IntTypeOf(target) # {}

Convert(v, target) ==
    IF v.t = target \/ target = <<"any">> THEN v
    ELSE LET d == CHOOSE x \in IntTypeOf(target) : TRUE
             low == SubSeq(IntBytes(v.n, 8), 9 - d.w, 8)
         IN  Val(target, IntOfBytes(low, d.w, d.signed), <<>>, <<>>)

\* rv := reflect.ValueOf(x); if rv.Type().ConvertibleTo(T) { rv = rv.Convert(T) };
\* dst.Set(rv): rv.Type() of the nil interface panics, Set of a value that is
\* not assignable panics
SetConverted(v, target) ==
    IF v = NilValue THEN DPanic
    ELSE IF ConvertibleTo(v, target) THEN DRes("ok", Convert(v, target))
    ELSE DPanic

\* the entries k1, v1, k2, v2 ... of a map in ascending key order
KeyLess(a, b) == IF a.n # b.n THEN a.n < b.n ELSE BytesLess(a.b, b.b)

\* m[k] = v on the entries of a map
RECURSIVE SetMapIndex(_, _, _)
SetMapIndex(s, k, v) ==
    IF Len(s) = 0 THEN <<k, v>>
    ELSE IF s[1] = k THEN <<k, v>> \o SubSeq(s, 3, Len(s))
    ELSE IF KeyLess(k, s[1]) THEN <<k, v>> \o s
    ELSE <<s[1], s[2]>> \o SetMapIndex(SubSeq(s, 3, Len(s)), k, v)

\* time.LoadLocation: the zone names the environment knows
KnownZones == {<<85, 84, 67>>}

RECURSIVE CodecDecode(_, _, _)
RECURSIVE StructDecodeFrom(_, _, _, _, _)
RECURSIVE StructSetField(_, _, _, _, _, _)
RECURSIVE ElemsDecodeFrom(_, _, _, _, _)
RECURSIVE ElemsAppend(_, _, _, _, _, _)
RECURSIVE MapDecodeFrom(_, _, _, _, _)
RECURSIVE MapDecodeValue(_, _, _, _, _, _)
RECURSIVE MapSetIndex(_, _, _, _, _, _, _)
RECURSIVE MapStringAnyDecodeFrom(_, _, _, _)
RECURSIVE MapStringAnySet(_, _, _, _, _, _)

\* a decoded part d converted to the target type: a failed decode is passed
\* on, the conversion can panic
Converted(d, target) ==
    IF d.st # "ok" THEN DRes(d.st, NilValue) ELSE SetConverted(d.v, target)

IntDecode(c, data) ==
    LET d == IntCodecs[c.kind]
    IN  IF Len(data) # d.w THEN DErr
        ELSE DRes("ok", Val(<<d.t>>, IntOfBytes(data, d.w, d.signed), <<>>, <<>>))

BitsDecode(c, data) ==
    LET d == BitsCodecs[c.kind]
    IN  IF Len(data) # d.w THEN DErr ELSE DRes("ok", Val(<<d.t>>, 0, data, <<>>))

\* BoolCodec.Decode: data[0] == 1
BoolOfByte(x) == x = 1

BoolDecode(data) ==
    IF Len(data) # 1 THEN DErr ELSE DRes("ok", Bool(BoolOfByte(data[1])))

StringDecode(data) == DRes("ok", Str(data))

\* LocationCodec.Decode: the empty name yields time.UTC, a *time.Location;
\* otherwise the location loaded by name
LocationDecode(data) ==
    IF data = <<>> THEN DRes("ok", PtrTo(Val(<<"Location">>, 0, <<85, 84, 67>>, <<>>)))
    ELSE IF data \notin KnownZones THEN DErr
    ELSE DRes("ok", Val(<<"Location">>, 0, data, <<>>))

\* one round of the field loop, d being the decoded payload of entry i and
\* after the bytes that follow it: a field that cannot be set is skipped,
\* reflect.ValueOf(nil).Type() panics, a value that does not convert is an
\* error
StructSetField(R, c, i, after, result, d) ==
    LET k == FieldIndex(c.typ, c.fields[i].name)
        ftype == StructFields(Head(c.typ))[k].type
        canSet == StructFields(Head(c.typ))[k].exported
    IN  IF d.st # "ok" THEN DRes(d.st, NilValue)
        ELSE IF ~canSet THEN StructDecodeFrom(R, c, i + 1, after, result)
        ELSE IF d.v = NilValue THEN DPanic
        ELSE IF ~ConvertibleTo(d.v, ftype) THEN DErr
        ELSE StructDecodeFrom(R, c, i + 1, after,
                              [result EXCEPT !.s[k] = Convert(d.v, ftype)])

\* a field loop that takes the TLVs as they come, whatever their tags
StructDecodeAnyTag(R, c, i, rest, result) ==
    IF i > Len(c.fields) THEN DRes("ok", result)
    ELSE LET tag == rest[1]
             length == BE(SubSeq(rest, 3, 4))
         IN  IF Len(rest) < 4 THEN DErr
             ELSE IF Len(rest) < 4 + length THEN DErr
             ELSE IF ~HasCodec(R, tag) THEN DErr
             ELSE StructSetField(R, c, i, SubSeq(rest, 5 + length, Len(rest)), result,
                                 CodecDecode(R, GetCodec(R, tag), SubSeq(rest, 5, 4 + length)))

\* the field loop of StructCodec.Decode from descriptor entry i on, rest being
\* the unread bytes and result the struct filled so far
StructDecodeFrom(R, c, i, rest, result) ==
    IF i > Len(c.fields) THEN DRes("ok", result)
    ELSE LET tag == rest[1]
             length == BE(SubSeq(rest, 3, 4))
         IN  IF Len(rest) < 1 THEN DErr
             ELSE IF tag # c.fields[i].typeTag THEN DErr
             ELSE IF Len(rest) < 2 THEN DErr
             ELSE IF Len(rest) < 4 THEN DErr
             ELSE IF Len(rest) < 4 + length THEN DErr
             ELSE IF ~HasCodec(R, tag) THEN DErr
             ELSE StructSetField(R, c, i, SubSeq(rest, 5 + length, Len(rest)), result,
                                 CodecDecode(R, GetCodec(R, tag), SubSeq(rest, 5, 4 + length)))

\* StructCodec.Decode: strict, one TLV per descriptor entry in order
StructDecode(R, c, data) == StructDecodeFrom(R, c, 1, data, Zero(c.typ))

\* InterfaceCodec.Decode: the length check and the slice bound 3+length are
\* computed in uint16
InterfaceDecode(R, data) ==
    LET tag == data[1]
        length == BE(SubSeq(data, 2, 3))
        hi == (3 + length) % U16Mod
    IN  IF Len(data) = 0 THEN DRes("ok", NilValue)
        ELSE IF Len(data) < 3 THEN DErr
        ELSE IF Len(data) % U16Mod < hi THEN DErr
        ELSE IF ~HasCodec(R, tag) THEN DErr
        ELSE IF hi < 3 THEN DPanic
        ELSE CodecDecode(R, GetCodec(R, tag), SubSeq(data, 4, hi))

\* one round of the entry loop, d being the decoded value of the entry
MapStringAnySet(R, left, after, acc, key, d) ==
    IF d.st # "ok" THEN DRes(d.st, NilValue)
    ELSE MapStringAnyDecodeFrom(R, left - 1, after, SetMapIndex(acc, key, d.v))

\* the entry loop of MapStringAnyCodec.Decode: left entries to read
MapStringAnyDecodeFrom(R, left, rest, acc) ==
    IF left = 0 THEN DRes("ok", MapOf(<<"map", "string", "any">>, acc))
    ELSE LET kLen == BE(SubSeq(rest, 1, 2))
             afterK == SubSeq(rest, 3 + kLen, Len(rest))
             vLen == BE(SubSeq(afterK, 1, 2))
         IN  IF Len(rest) < 2 THEN DErr
             ELSE IF Len(rest) < 2 + kLen THEN DErr
             ELSE IF Len(afterK) < 2 THEN DErr
             ELSE IF Len(afterK) < 2 + vLen THEN DErr
             ELSE MapStringAnySet(R, left, SubSeq(afterK, 3 + vLen, Len(afterK)), acc,
                                  Str(SubSeq(rest, 3, 2 + kLen)),
                                  InterfaceDecode(R, SubSeq(afterK, 3, 2 + vLen)))

MapStringAnyDecode(R, data) ==
    IF Len(data) < 4 THEN DErr
    ELSE MapStringAnyDecodeFrom(R, U32Val(SubSeq(data, 1, 4)), SubSeq(data, 5, Len(data)), <<>>)

\* one round of the element loop, e being the decoded element converted to
\* the element type
ElemsAppend(R, c, left, after, acc, e) ==
    IF e.st # "ok" THEN e
    ELSE ElemsDecodeFrom(R, c, left - 1, after, Append(acc, e.v))

\* the element loop of SliceCodec.Decode and ArrayCodec.Decode: left elements
\* to read, acc the elements set so far
ElemsDecodeFrom(R, c, left, rest, acc) ==
    IF left = 0 THEN DRes("ok", acc)
    ELSE LET elemLen == U32Val(SubSeq(rest, 1, 4))
         IN  IF Len(rest) < 4 THEN DErr
             ELSE IF Len(rest) - 4 < elemLen THEN DErr
             ELSE ElemsAppend(R, c, left, SubSeq(rest, 5 + elemLen, Len(rest)), acc,
                              Converted(CodecDecode(R, c.sub[1], SubSeq(rest, 5, 4 + elemLen)),
                                        c.typ))

\* reflect.MakeSlice filled with the decoded elements d
MadeSlice(c, d) == IF d.st # "ok" THEN d ELSE DRes("ok", SliceOf(c.typ, d.v))

\* SliceCodec.Decode: count, then that many elements into a made slice
SliceDecode(R, c, data) ==
    IF Len(data) < 4 THEN DErr
    ELSE IF data[1] >= 128 THEN DAlloc
    ELSE MadeSlice(c, ElemsDecodeFrom(R, c, U32Val(SubSeq(data, 1, 4)),
                                      SubSeq(data, 5, Len(data)), <<>>))

\* reflect.New(ArrayOf(arrayLen, elemType)) filled with the decoded elements d
MadeArray(c, d) ==
    IF d.st # "ok" THEN d
    ELSE DRes("ok", ArrayOf(<<IF c.alen = 2 THEN "array2" ELSE "array0">> \o c.typ, d.v))

\* ArrayCodec.Decode: arrayLen elements
ArrayDecode(R, c, data) == MadeArray(c, ElemsDecodeFrom(R, c, c.alen, data, <<>>))

\* the end of a round of the entry loop: dk and dv are the decoded key and
\* value, both are converted and the entry is set
MapSetIndex(R, c, left, after, acc, dk, dv) ==
    LET ek == SetConverted(dk.v, c.ktyp)
        ev == SetConverted(dv.v, c.typ)
    IN  IF dv.st # "ok" THEN DRes(dv.st, NilValue)
        ELSE IF ek.st # "ok" THEN ek
        ELSE IF ev.st # "ok" THEN ev
        ELSE MapDecodeFrom(R, c, left - 1, after, SetMapIndex(acc, ek.v, ev.v))

\* the middle of a round: dk is the decoded key, afterK the bytes after it
MapDecodeValue(R, c, left, afterK, acc, dk) ==
    LET valLen == U32Val(SubSeq(afterK, 1, 4))
    IN  IF dk.st # "ok" THEN DRes(dk.st, NilValue)
        ELSE IF Len(afterK) < 4 THEN DErr
        ELSE IF Len(afterK) - 4 < valLen THEN DErr
        ELSE MapSetIndex(R, c, left, SubSeq(afterK, 5 + valLen, Len(afterK)), acc, dk,
                         CodecDecode(R, c.sub[2], SubSeq(afterK, 5, 4 + valLen)))

\* the entry loop of MapCodec.Decode: left entries to read
MapDecodeFrom(R, c, left, rest, acc) ==
    IF left = 0 THEN DRes("ok", acc)
    ELSE LET keyLen == U32Val(SubSeq(rest, 1, 4))
         IN  IF Len(rest) < 4 THEN DErr
             ELSE IF Len(rest) - 4 < keyLen THEN DErr
             ELSE MapDecodeValue(R, c, left, SubSeq(rest, 5 + keyLen, Len(rest)), acc,
                                 CodecDecode(R, c.sub[1], SubSeq(rest, 5, 4 + keyLen)))

\* reflect.MakeMap filled with the decoded entries d
MadeMap(c, d) ==
    IF d.st # "ok" THEN d ELSE DRes("ok", MapOf(<<"map">> \o c.ktyp \o c.typ, d.v))

\* MapCodec.Decode: count, then that many entries into a made map
MapDecode(R, c, data) ==
    IF Len(data) < 4 THEN DErr
    ELSE MadeMap(c, MapDecodeFrom(R, c, U32Val(SubSeq(data, 1, 4)),
                                  SubSeq(data, 5, Len(data)), <<>>))

\* reflect.New(elemType) set to the decoded and converted pointee e
NewPointer(c, e) ==
    IF e.st # "ok" THEN e ELSE DRes("ok", Val(PtrType(c.typ), 1, <<>>, <<e.v>>))

\* PointerCodec.Decode: byte 0 is the nil pointer of the pointer type, any
\* other first byte is followed by the pointee
PointerDecode(R, c, data) ==
    IF Len(data) = 0 THEN DErr
    ELSE IF data[1] = 0 THEN DRes("ok", NilPtr(c.typ))
    ELSE NewPointer(c, Converted(CodecDecode(R, c.sub[1], Tail(data)), c.typ))

\* MarshalerCodec.Decode: the length check and the slice bound 2+length are
\* computed in uint16; UnmarshalBinary rejects empty data
MarshalerDecode(c, data) ==
    LET length == BE(SubSeq(data, 1, 2))
        hi == (2 + length) % U16Mod
    IN  IF Len(data) < 2 THEN DErr
        ELSE IF Len(data) % U16Mod < hi THEN DErr
        ELSE IF hi < 2 THEN DPanic
        ELSE IF hi = 2 THEN DErr
        ELSE DRes("ok", Val(c.typ, 0, SubSeq(data, 3, hi), <<>>))

CodecDecode(R, c, data) ==
    CASE c.kind \in DOMAIN IntCodecs -> IntDecode(c, data)
      [] c.kind \in DOMAIN BitsCodecs -> BitsDecode(c, data)
      [] c.kind = "BoolCodec" -> BoolDecode(data)
      [] c.kind = "StringCodec" -> StringDecode(data)
      [] c.kind = "LocationCodec" -> LocationDecode(data)
      [] c.kind = "StructCodec" -> StructDecode(R, c, data)
      [] c.kind = "InterfaceCodec" -> InterfaceDecode(R, data)
      [] c.kind = "MapStringAnyCodec" -> MapStringAnyDecode(R, data)
      [] c.kind = "SliceCodec" -> SliceDecode(R, c, data)
      [] c.kind = "ArrayCodec" -> ArrayDecode(R, c, data)
      [] c.kind = "MapCodec" -> MapDecode(R, c, data)
      [] c.kind = "PointerCodec" -> PointerDecode(R, c, data)
      [] c.kind = "MarshalerCodec" -> MarshalerDecode(c, data)

(***************************************************************************)
(* Encoder.Encode and Decoder.Decode.                                      *)
(***************************************************************************)
EncRes(R, st, b, buf) == [R |-> R, st |-> st, b |-> b, buf |-> buf]

\* a frame whose length field is little-endian, which binary.BigEndian rules
\* out
FrameLittleEndian(tag, payload) ==
    <<BOF, tag, LengthOfLength, Len(payload) % ByteMod, (Len(payload) \div ByteMod) % ByteMod>>
       \o payload \o <<EOF>>

\* the frame written around a payload: BOF, tag, length-of-length, the
\* payload length as uint16, the payload, EOF
Frame(tag, payload) ==
    <<BOF, tag, LengthOfLength>> \o U16(Len(payload)) \o payload \o <<EOF>>

\* the tail of Encoder.Encode, e being the payload the codec returned: an
\* error returns nil and leaves BOF in the buffer
EncodeFrame(tag, e) ==
    IF e.st # "ok" THEN EncRes(e.R, e.st, <<>>, <<BOF>>)
    ELSE EncRes(e.R, "ok", Frame(tag, e.b), Frame(tag, e.b))

\* Encoder.Encode after GetTag returned g
EncodeTagged(v, ord, g) ==
    IF g.st # "ok" THEN EncRes(g.R, g.st, <<>>, <<BOF>>)
    ELSE IF ~HasCodec(g.R, g.tag) THEN EncRes(g.R, "err", <<>>, <<BOF>>)
    ELSE EncodeFrame(g.tag, CodecEncode(g.R, GetCodec(g.R, g.tag), v, ord))

\* Encoder.Encode(value): the buffer is reset and BOF written before the tag
\* is looked up
Encode(R, v, ord) == EncodeTagged(v, ord, GetTag(R, v.t))

\* what Decode returns: how it ended; for an error its cause ("short": a
\* short read, io.EOF or io.ErrUnexpectedEOF; "marker": a wrong BOF or EOF
\* byte; "tag": no codec for the tag; "codec": the codec's error); the
\* value; and the bytes left unread
DecRes(st, why, v, rest) == [st |-> st, why |-> why, v |-> v, rest |-> rest]

\* binary.BigEndian.Uint16(lengthBytes): the first two bytes
Uint16(bs) == BE(SubSeq(bs, 1, 2))

\* the tail of Decoder.Decode, d being what the codec returned for the
\* payload and afterPayload the bytes that follow it: the EOF marker is read
DecodeEOF(d, afterPayload) ==
    IF d.st \in {"panic", "alloc"} THEN DecRes(d.st, "", NilValue, afterPayload)
    ELSE IF d.st # "ok" THEN DecRes("err", "codec", NilValue, afterPayload)
    ELSE IF Len(afterPayload) < 1 THEN DecRes("err", "short", NilValue, <<>>)
    ELSE IF afterPayload[1] # EOF THEN DecRes("err", "marker", NilValue, Tail(afterPayload))
    ELSE DecRes("ok", "", d.v, Tail(afterPayload))

\* Decoder.Decode() after the length-of-length byte: lol length bytes, of
\* which Uint16 reads two and panics on fewer, then the payload
DecodePayload(R, r, tag, lol) ==
    LET length == Uint16(SubSeq(r, 4, 3 + lol))
    IN  IF Len(r) < 3 + lol THEN DecRes("err", "short", NilValue, <<>>)
        ELSE IF lol < 2 THEN DecRes("panic", "", NilValue, SubSeq(r, 4 + lol, Len(r)))
        ELSE IF Len(r) < 3 + lol + length THEN DecRes("err", "short", NilValue, <<>>)
        ELSE IF ~HasCodec(R, tag)
             THEN DecRes("err", "tag", NilValue, SubSeq(r, 4 + lol + length, Len(r)))
        ELSE DecodeEOF(CodecDecode(R, GetCodec(R, tag), SubSeq(r, 4 + lol, 3 + lol + length)),
                       SubSeq(r, 4 + lol + length, Len(r)))

\* Decoder.Decode() on the unread bytes r
Decode(R, r) ==
    IF Len(r) < 1 THEN DecRes("err", "short", NilValue, <<>>)
    ELSE IF r[1] # BOF THEN DecRes("err", "marker", NilValue, Tail(r))
    ELSE IF Len(r) < 3 THEN DecRes("err", "short", NilValue, <<>>)
    ELSE DecodePayload(R, r, r[2], r[3])

(***************************************************************************)
(* The stream container of decoder/decoder.go: a Decoder with a schema,    *)
(* from field tags to types, reads a begin marker, objects and an end      *)
(* marker.  A result is how the call ended (st), for an error which error  *)
(* it is or wraps (why), the value (v) and the bytes left unread (rest).   *)
(***************************************************************************)
BOFMarker == <<128, 0, 0, 0>>
EOFMarker == <<0, 0, 0, 1>>
ObjectEndMarker == <<102, 102, 102, 102>>

SRes(st, why, v, rest) == [st |-> st, why |-> why, v |-> v, rest |-> rest]

\* io.ReadFull(reader, make([]byte, n)) on the unread bytes r: nothing to
\* read is no error; io.EOF when no byte is left, io.ErrUnexpectedEOF when
\* fewer than n are
ReadFull(r, n) ==
    IF n = 0 THEN SRes("ok", "", <<>>, r)
    ELSE IF Len(r) = 0 THEN SRes("err", "EOF", <<>>, <<>>)
    ELSE IF Len(r) < n THEN SRes("err", "UnexpectedEOF", <<>>, <<>>)
    ELSE SRes("ok", "", SubSeq(r, 1, n), SubSeq(r, n + 1, Len(r)))

\* binary.Read(bytes.NewReader(lengthBytes), binary.BigEndian, &uint16): the
\* first two bytes
ReadUint16(lengthBytes) ==
    IF Len(lengthBytes) = 0 THEN SRes("err", "EOF", 0, <<>>)
    ELSE IF Len(lengthBytes) < 2 THEN SRes("err", "UnexpectedEOF", 0, <<>>)
    ELSE SRes("ok", "", BE(SubSeq(lengthBytes, 1, 2)), <<>>)

\* the comparison of validateMarker, m being the bytes read
MarkerRead(m, expectedMarker, customErr) ==
    IF m.st # "ok" THEN m
    ELSE IF m.v # expectedMarker THEN SRes("err", customErr, <<>>, m.rest)
    ELSE m

validateMarker(r, expectedMarker, customErr) ==
    MarkerRead(ReadFull(r, Len(expectedMarker)), expectedMarker, customErr)

\* the schema of the Decoder: field tag to type
Schema == (1 :> <<"int32">>) @@ (2 :> <<"string">>) @@ (3 :> <<"float64">>) @@ (4 :> <<"bool">>)

\* decodeValue: a string is the bytes; an int32 and a float64 are read from
\* the first 4 and 8 bytes; no other kind is converted
decodeValue(data, targetType) ==
    CASE targetType = <<"string">> -> SRes("ok", "", Str(data), <<>>)
      [] targetType = <<"int32">> ->
            IF Len(data) = 0 THEN SRes("err", "EOF", NilValue, <<>>)
            ELSE IF Len(data) < 4 THEN SRes("err", "UnexpectedEOF", NilValue, <<>>)
            ELSE SRes("ok", "", I32(Signed32(SubSeq(data, 1, 4))), <<>>)
      [] targetType = <<"float64">> ->
            IF Len(data) = 0 THEN SRes("err", "EOF", NilValue, <<>>)
            ELSE IF Len(data) < 8 THEN SRes("err", "UnexpectedEOF", NilValue, <<>>)
            ELSE SRes("ok", "", Bits("float64", SubSeq(data, 1, 8)), <<>>)
      [] OTHER -> SRes("err", "TypeConversion", NilValue, <<>>)

RECURSIVE parseTLVData(_, _)

\* the end of a round of parseTLVData: d is the decoded value of the field
TLVDecoded(tag, d, rest, result) ==
    IF d.st # "ok" THEN SRes("err", d.why, <<>>, <<>>)
    ELSE parseTLVData(rest, Put(result, tag, d.v))

\* a round after the value bytes were read (val)
TLVValue(tag, val, result) ==
    IF val.st # "ok" THEN SRes("err", "IncompleteData", <<>>, <<>>)
    ELSE IF tag \notin DOMAIN Schema THEN SRes("err", "UnknownFieldTag", <<>>, <<>>)
    ELSE TLVDecoded(tag, decodeValue(val.v, Schema[tag]), val.rest, result)

\* a round after the length was parsed (length) from the length bytes
TLVLength(tag, length, rest, result) ==
    IF length.st # "ok" THEN SRes("err", "IncompleteData", <<>>, <<>>)
    ELSE TLVValue(tag, ReadFull(rest, length.v), result)

\* a round after the length bytes were read (lb)
TLVLengthBytes(tag, lb, result) ==
    IF lb.st # "ok" THEN SRes("err", "IncompleteData", <<>>, <<>>)
    ELSE TLVLength(tag, ReadUint16(lb.v), lb.rest, result)

\* parseTLVData: while bytes are left, tag, length-of-length, length bytes,
\* value; result maps the tags read so far to their values
parseTLVData(buf, result) ==
    IF Len(buf) = 0 THEN SRes("ok", "", result, <<>>)
    ELSE IF Len(buf) < 2 THEN SRes("err", "IncompleteData", <<>>, <<>>)
    ELSE TLVLengthBytes(buf[1], ReadFull(SubSeq(buf, 3, Len(buf)), buf[2]), result)

\* DecodeObject after the TLVs were parsed (p): the object end marker
ObjectEnd(p, m) ==
    IF m.st # "ok" THEN SRes("err", m.why, <<>>, m.rest) ELSE SRes("ok", "", p.v, m.rest)

ObjectParsed(p, rest) ==
    IF p.st # "ok" THEN SRes("err", p.why, <<>>, rest)
    ELSE ObjectEnd(p, validateMarker(rest, ObjectEndMarker, "InvalidObjectEnd"))

\* DecodeObject after the object data was read (data)
ObjectData(data) ==
    IF data.st # "ok" THEN SRes("err", data.why, <<>>, data.rest)
    ELSE ObjectParsed(parseTLVData(data.v, EmptyFn), data.rest)

\* DecodeObject after the data length was parsed (length)
ObjectLength(length, rest) ==
    IF length.st # "ok" THEN SRes("err", length.why, <<>>, rest)
    ELSE ObjectData(ReadFull(rest, length.v))

\* DecodeObject after the length bytes were read (lb)
ObjectLengthBytes(lb) ==
    IF lb.st # "ok" THEN SRes("err", lb.why, <<>>, lb.rest)
    ELSE ObjectLength(ReadUint16(lb.v), lb.rest)

\* DecodeObject: the length-of-length byte, the length bytes, the length as
\* uint16, the object data, its TLVs, the object end marker
DecodeObject(r) ==
    IF Len(r) = 0 THEN SRes("err", "EOF", <<>>, <<>>)
    ELSE ObjectLengthBytes(ReadFull(Tail(r), r[1]))

RECURSIVE StreamLoop(_, _)

\* the end of DecodeStream: the objects were read and the end marker (m)
StreamEnd(m, allObjects) ==
    IF m.st # "ok" THEN SRes("err", m.why, <<>>, m.rest)
    ELSE SRes("ok", "", allObjects, m.rest)

\* a round of the loop of DecodeStream, o being what DecodeObject returned:
\* an error that is io.EOF ends the objects and the end marker is read
StreamObject(o, allObjects) ==
    IF o.st = "ok" THEN StreamLoop(o.rest, Append(allObjects, o.v))
    ELSE IF o.why = "EOF" THEN StreamEnd(validateMarker(o.rest, EOFMarker, "InvalidEOF"),
                                         allObjects)
    ELSE SRes("err", o.why, <<>>, o.rest)

StreamLoop(r, allObjects) == StreamObject(DecodeObject(r), allObjects)

\* the begin marker (m) was read
StreamBegin(m) ==
    IF m.st # "ok" THEN SRes("err", m.why, <<>>, m.rest) ELSE StreamLoop(m.rest, <<>>)

\* DecodeStream on the unread bytes r
DecodeStream(r) == StreamBegin(validateMarker(r, BOFMarker, "InvalidBOF"))

(***************************************************************************)
(* The values the client hands to the API, by name.                        *)
(***************************************************************************)
Int32T == <<"int32">>
StringT == <<"string">>
Array2T == <<"array2", "int32">>
MapT == <<"map", "string", "int32">>
AnyT == <<"any">>
AnyMapT == <<"map", "string", "any">>

CounterOf(x) == StructOf("Counter", <<I32(x)>>)
RecOf(id, name, p, l) == StructOf("Rec", <<I32(id), Str(name), p, l>>)

\* the slices [1], [1, 2], ... of int32
Int32Slice(n) == SliceOf(Int32T, [i \in 1..n |-> I32(i)])

Values ==
    [Nil          |-> NilValue,
     Int32        |-> I32(42),
     Int32Neg     |-> I32(-1),
     Int32Min     |-> I32(-2147483647 - 1),
     Int8Min      |-> I8(-128),
     True         |-> Bool(TRUE),
     False        |-> Bool(FALSE),
     EmptyString  |-> Str(<<>>),
     String       |-> Str(<<97, 0, 205>>),
     LongString   |-> Str(Rep(97, BigLen)),
     Float64      |-> Bits("float64", <<64, 9, 33, 251, 84, 68, 45, 24>>),
     Pointer      |-> PtrTo(I32(5)),
     StructPtr    |-> PtrTo(CounterOf(7)),
     NilPointer   |-> NilPtr(Int32T),
     Slice        |-> Int32Slice(MaxElems),
     EmptySlice   |-> Int32Slice(0),
     NilSlice32   |-> NilSlice(Int32T),
     StringSlice  |-> SliceOf(StringT, <<>>),
     Array        |-> ArrayOf(Array2T, <<I32(1), I32(-2)>>),
     Map          |-> MapOf(MapT, <<Str(<<97>>), I32(1), Str(<<98>>), I32(2)>>),
     OneEntryMap  |-> MapOf(MapT, <<Str(<<97>>), I32(1)>>),
     EmptyMap     |-> MapOf(MapT, <<>>),
     NilMap32     |-> NilMap(MapT),
     Counter      |-> CounterOf(7),
     Rec          |-> RecOf(1, <<97>>, PtrTo(I32(5)), Int32Slice(MaxElems)),
     RecNilPtr    |-> RecOf(2, <<>>, NilPtr(Int32T), Int32Slice(0)),
     RecNilSlice  |-> RecOf(3, <<98>>, PtrTo(I32(-1)), NilSlice(Int32T)),
     LongRec      |-> RecOf(4, Rep(97, BigLen), PtrTo(I32(5)), Int32Slice(0)),
     Outer        |-> StructOf("Outer", <<CounterOf(7), Bool(TRUE)>>),
     Pair         |-> StructOf("Pair", <<SliceOf(<<"int8">>, <<I8(1)>>),
                                         SliceOf(<<"int8">>, <<>>)>>),
     Hidden       |-> StructOf("Hidden", <<I32(7)>>),
     Empty        |-> StructOf("Empty", <<>>),
     Holder       |-> StructOf("Holder", <<I32(5)>>),
     HolderNil    |-> StructOf("Holder", <<NilValue>>),
     AnyMap       |-> MapOf(AnyMapT, <<Str(<<97>>), I32(1)>>),
     AnyMap2      |-> MapOf(AnyMapT, <<Str(<<97>>), I32(1), Str(<<98>>), Str(<<120>>)>>),
     AnyMapNil    |-> MapOf(AnyMapT, <<Str(<<97>>), NilValue>>),
     AnyMapSlice  |-> MapOf(AnyMapT, <<Str(<<97>>), Int32Slice(MaxElems)>>),
     AnyMapList   |-> MapOf(AnyMapT, <<Str(<<97>>), SliceOf(AnyT, <<I32(1)>>)>>),
     EmptyAnyMap  |-> MapOf(AnyMapT, <<>>),
     NilAnyMap    |-> NilMap(AnyMapT),
     AnyList      |-> SliceOf(AnyT, <<I32(1)>>),
     EmptyAnyList |-> SliceOf(AnyT, <<>>),
     Chan         |-> Val(<<"chan">>, 1, <<>>, <<>>),
     Func         |-> Val(<<"func">>, 1, <<>>, <<>>)]

\* the orders in which range may visit a map of up to two entries
Orders == {<<1, 2>>, <<2, 1>>}

\* only the encoding of a map with several entries depends on the order
OrdersOf(v) == IF v.t # NilType /\ Kind(v.t) = "map" /\ Len(v.s) > 2 THEN Orders ELSE {<<1, 2>>}

(***************************************************************************)
(* The state machine: one action per call of the API.                      *)
(***************************************************************************)
Registry == Reg(codecs, types, nextStructTag)

\* the registry fields after a call; a call that changes them counts
SetRegistry(R) ==
    /\ codecs' = R.codecs
    /\ types' = R.types
    /\ nextStructTag' = R.next
    /\ calls' = IF R = Registry THEN calls ELSE calls + 1
    /\ calls' <= MaxCalls

Ret(op, st, why, v, tag, t, src) ==
    [op |-> op, st |-> st, why |-> why, v |-> v, tag |-> tag, t |-> t, src |-> src]

NoRet == Ret("none", "ok", "", NilValue, 0, NilType, 0)
NoEnc == [v |-> "Nil", st |-> "none"]

\* e.buffer.Reset(): the buffer is empty, its array is kept
Reset(buf) == <<>>

\* a slice that is the buffer's own bytes: return e.buffer.Bytes()
ResultSharingBuffer(buf) == [shared |-> TRUE, b |-> buf]

\* result := make([]byte, e.buffer.Len()); copy(result, e.buffer.Bytes()): a
\* slice on an array of its own
Result(buf) == [shared |-> FALSE, b |-> buf]

\* the bytes of the slice s once the buffer has been reset and buf written
\* to it: a slice that shares the buffer's array shows the bytes written over
\* its own
Overwritten(s, buf) ==
    IF ~s.shared THEN s
    ELSE [s EXCEPT !.b = [i \in 1..Len(s.b) |-> IF i <= Len(buf) THEN buf[i] ELSE s.b[i]]]

\* the goroutines that share the registry, and one that has made no call
Goroutines == {1, 2}
Idle == [pc |-> "idle", t |-> NilType, tag |-> 0, codec |-> 0, st |-> "none",
         overlapped |-> FALSE]

\* the caller has kept no slice
NoHeld == [s |-> Result(<<>>), was |-> <<>>]

Init ==
    /\ codecs = NewCodecRegistry.codecs
    /\ types = NewCodecRegistry.types
    /\ nextStructTag = NewCodecRegistry.next
    /\ calls = 0
    /\ buffer = <<>>
    /\ enc = NoEnc
    /\ frame = <<>>
    /\ reader = <<>>
    /\ ret = NoRet
    /\ held = NoHeld
    /\ goroutines = [g \in Goroutines |-> Idle]

\* registry.RegisterPrimitives()
DoRegisterPrimitives ==
    /\ SetRegistry(RegisterPrimitives(Registry))
    /\ ret' = Ret("RegisterPrimitives", "ok", "", NilValue, 0, NilType, 0)
    /\ UNCHANGED <<buffer, enc, frame, reader, held, goroutines>>

\* a call of the registry returned r
RegistryReturns(op, t, r) ==
    /\ SetRegistry(r.R)
    /\ ret' = Ret(op, r.st, "", NilValue, r.tag, t, 0)
    /\ UNCHANGED <<buffer, enc, frame, reader, held, goroutines>>

\* registry.RegisterStruct(example), the example being of type t
DoRegisterStruct(t) ==
    /\ calls <= MaxCalls
    /\ RegistryReturns("RegisterStruct", t, RegisterStruct(Registry, t, <<>>))

\* registry.GetTag(value), the value being of type t
DoGetTag(t) ==
    /\ calls <= MaxCalls
    /\ RegistryReturns("GetTag", t, GetTag(Registry, t))

\* registry.RegisterCodec(tag, codec, example), the example being of type t
DoRegisterCodec(tag, codec, t) ==
    /\ SetRegistry(RegisterCodec(Registry, tag, codec, t))
    /\ ret' = Ret("RegisterCodec", "ok", "", NilValue, tag, t, 0)
    /\ UNCHANGED <<buffer, enc, frame, reader, held, goroutines>>

\* encoder.Encode(Values[name]) ended as e: the buffer was reset and written,
\* frame is the slice returned, a copy of the buffer, or nil
EncodeWrites(name, e) ==
    /\ SetRegistry(e.R)
    /\ buffer' = Reset(buffer) \o e.buf
    /\ enc' = [v |-> name, st |-> e.st]
    /\ frame' = IF e.st = "ok" THEN Result(Reset(buffer) \o e.buf).b ELSE <<>>
    /\ ret' = Ret("Encode", e.st, "", NilValue, 0, Values[name].t, 0)
    /\ UNCHANGED <<reader, goroutines>>

\* the call returned e and the caller kept the slice of no earlier call but
\* the one it held already
EncodeReturns(name, e) ==
    /\ EncodeWrites(name, e)
    /\ held' = [held EXCEPT !.s = Overwritten(@, Reset(buffer) \o e.buf)]

\* the call returned the slice and the caller keeps it
EncodeReturnsKept(name, e) ==
    /\ e.st = "ok"
    /\ EncodeWrites(name, e)
    /\ held' = [s |-> Result(Reset(buffer) \o e.buf), was |-> Reset(buffer) \o e.buf]

\* kept := encoder.Encode(Values[name])
DoEncodeKept(name, ord) ==
    /\ calls <= MaxCalls
    /\ EncodeReturnsKept(name, Encode(Registry, Values[name], ord))

\* encoder.Encode(Values[name])
DoEncode(name, ord) ==
    /\ calls <= MaxCalls
    /\ EncodeReturns(name, Encode(Registry, Values[name], ord))

\* codec.Encode(v) of the codec bound to tag returned e
CodecEncodeReturns(tag, v, e) ==
    /\ SetRegistry(e.R)
    /\ ret' = Ret("Codec.Encode", e.st, "", v, tag, v.t, Len(e.b))
    /\ UNCHANGED <<buffer, enc, frame, reader, held, goroutines>>

\* codec, _ := registry.GetCodec(tag); codec.Encode(v)
DoCodecEncode(tag, v, ord) ==
    /\ HasCodec(Registry, tag)
    /\ CodecEncodeReturns(tag, v, CodecEncode(Registry, GetCodec(Registry, tag), v, ord))

\* codec.Decode(data) of the codec bound to tag returned d
CodecDecodeReturns(tag, data, d) ==
    /\ \E st \in MakeSliceOutcomes(d.st) :
          ret' = Ret("Codec.Decode", st, "", d.v, tag, NilType, Len(data))
    /\ UNCHANGED <<codecs, types, nextStructTag, calls, buffer, enc, frame, reader, held, goroutines>>

\* codec, _ := registry.GetCodec(tag); codec.Decode(data)
DoCodecDecode(tag, data) ==
    /\ HasCodec(Registry, tag)
    /\ CodecDecodeReturns(tag, data, CodecDecode(Registry, GetCodec(Registry, tag), data))

\* decoder.Decode() returned d
DecodeReturns(src, d) ==
    /\ reader' = d.rest
    /\ \E st \in MakeSliceOutcomes(d.st) :
          ret' = Ret("Decode", st, IF d.st = "alloc" /\ st = "err" THEN "codec" ELSE d.why,
                     d.v, 0, NilType, src)
    /\ UNCHANGED <<codecs, types, nextStructTag, calls, buffer, enc, frame, held, goroutines>>

\* NewDecoder(registry, bytes.NewReader(input)).Decode()
DecodeFrom(input, src) == DecodeReturns(src, Decode(Registry, input))

\* the Decoder is given the first k bytes of the frame Encode returned
DoDecodeFrame(k) ==
    /\ enc.st = "ok"
    /\ k \in 0..Len(frame)
    /\ DecodeFrom(SubSeq(frame, 1, k), k)

\* the frame Encode returned is written to the byte source of the Decoder,
\* a source that holds no more than max bytes
DoWriteFrame(max) ==
    /\ enc.st = "ok"
    /\ Len(reader) + Len(frame) <= max
    /\ reader' = reader \o frame
    /\ UNCHANGED <<codecs, types, nextStructTag, calls, buffer, enc, frame, ret, held,
                   goroutines>>

\* decoder.Decode() once more on the same byte source
DoDecodeNext == DecodeFrom(reader, Len(reader))

\* the Decoder is given arbitrary bytes
DoDecodeBytes(bs) ==
    /\ calls <= MaxCalls
    /\ DecodeFrom(bs, -1)

(***************************************************************************)
(* SpecCodec: start-up, then values are encoded and the frames decoded.    *)
(***************************************************************************)
\* the values of the any-typed fields and maps
AnyValues ==
    {"Holder", "HolderNil", "AnyMap", "AnyMap2", "AnyMapNil", "AnyMapSlice", "AnyMapList",
     "EmptyAnyMap", "NilAnyMap"}

\* the values of the type []interface{}
ListValues == {"AnyList", "EmptyAnyList"}

\* the values of types that no rule of resolveType resolves
UnresolvableValues == {"Chan", "Func"}

CodecValues ==
    DOMAIN Values
       \ ({"LongRec", "StringSlice"} \cup AnyValues \cup ListValues \cup UnresolvableValues)

NextCodec ==
    \/ calls = 0 /\ DoRegisterPrimitives
    \/ \E name \in CodecValues : \E ord \in OrdersOf(Values[name]) : DoEncode(name, ord)
    \/ DoDecodeFrame(Len(frame))

SpecCodec == Init /\ [][NextCodec]_vars

\* the values of C1: of a primitive type, or of a struct, slice, array, map
\* or non-nil pointer type built from primitives, with payloads that fit the
\* 16-bit length fields
RoundTripValues ==
    CodecValues \ {"Nil", "NilPointer", "RecNilPtr", "LongString"}

\* the last call decoded the whole frame the Encoder returned
DecodedFrame == ret.op = "Decode" /\ enc.st = "ok" /\ ret.src = Len(frame)

\* C1: once the primitives are registered, Encoder.Encode of a value of
\* RoundTripValues succeeds, and Decoder.Decode of the bytes it returned, with
\* the same registry, succeeds and returns a value of the same type equal to
\* the value encoded.
C1_RoundTrip ==
    /\ (ret.op = "Encode" /\ enc.v \in RoundTripValues /\ Int32T \in DOMAIN types)
       => ret.st = "ok"
    /\ (DecodedFrame /\ enc.v \in RoundTripValues)
       => /\ ret.st = "ok"
          /\ ret.v.t = Values[enc.v].t
          /\ ret.v = Values[enc.v]

\* a struct with an unexported field is handed to Encode, which panics
C1_UnexportedFieldPanics ==
    /\ ret.op = "Encode"
    /\ enc.v = "Hidden"
    /\ Int32T \in DOMAIN types
    /\ ret.st = "panic"

\* the last call was Encode, after the primitives were registered
Encoded == ret.op = "Encode" /\ Int32T \in DOMAIN types

\* the payload of the frame the Encoder returned
Payload == SubSeq(frame, 6, Len(frame) - 1)

\* C2: Encoder.Encode of a nil *int32 succeeds and the frame's payload is the
\* one byte 00; Encode of a struct holding a nil *int32 succeeds; and the
\* Decode of every PointerCodec of the registry, given the payload 00, returns
\* the nil pointer of the codec's pointer type.
C2_NilPointerEncodes ==
    /\ (Encoded /\ enc.v = "NilPointer") => (ret.st = "ok" /\ Payload = <<0>>)
    /\ (Encoded /\ enc.v = "RecNilPtr") => ret.st = "ok"
    /\ \A tag \in DOMAIN codecs :
          codecs[tag].kind = "PointerCodec"
             => CodecDecode(Registry, codecs[tag], <<0>>) = DRes("ok", NilPtr(codecs[tag].typ))

\* Encode of a nil *int32 panics, although a PointerCodec is bound to *int32
C2_NilPointerPanics ==
    /\ Encoded
    /\ enc.v = "NilPointer"
    /\ ret.st = "panic"
    /\ Values[enc.v].t \in DOMAIN types
    /\ codecs[types[Values[enc.v].t]].kind = "PointerCodec"

C10_LengthFieldIsPayloadLength ==
    enc.st = "ok" => BE(SubSeq(frame, 4, 5)) = Len(frame) - 6

\* a string of BigLen bytes was framed with the length BigLen - 65536
C10_LengthWrapped ==
    /\ enc.st = "ok"
    /\ enc.v = "LongString"
    /\ Len(frame) = 6 + BigLen
    /\ BE(SubSeq(frame, 4, 5)) = BigLen - U16Mod

\* the struct values of SpecCodec whose Encode returns
StructValues == {"Counter", "Rec", "RecNilSlice", "Outer", "Pair", "Empty"}

\* the payload of field i of the struct value v, encoded by the codec bound
\* to the tag of the field's type
FieldPayload(v, i) ==
    CodecEncode(Registry, codecs[types[StructFields(Head(v.t))[i].type]], v.s[i], <<1, 2>>).b

\* the TLVs of the fields of v from field i on: tag of the field's type, 02,
\* the length on two bytes, the payload
RECURSIVE FieldTLVs(_, _)
FieldTLVs(v, i) ==
    IF i > Len(v.s) THEN <<>>
    ELSE <<types[StructFields(Head(v.t))[i].type], 2,
           Len(FieldPayload(v, i)) \div 256, Len(FieldPayload(v, i)) % 256>>
            \o FieldPayload(v, i) \o FieldTLVs(v, i + 1)

DecoderValues ==
    {"Int32", "String", "LongString", "Slice", "Counter"}

\* the lengths of the prefixes of the frame given to the Decoder: the short
\* ones and the whole frame
Cuts == {k \in 0..MaxCut : k <= Len(frame)} \cup {Len(frame)}

\* the length-of-length bytes read from the stream
Lols == {0, 1, 2, 3, 255}

\* lol length bytes of which the first two, if there are two, hold n
LengthBytes(lol, n) == SubSeq(U16(n) \o Rep(0, ByteMod), 1, lol)

\* bytes that no Encoder wrote: streams shorter than a header, and headers
\* with a bound or an unbound tag, any length-of-length and any end marker
DecoderInputs ==
    {<<>>, <<0>>, <<BOF>>, <<BOF, 1>>}
       \cup {<<BOF, tag, lol>> \o LengthBytes(lol, 4) \o <<0, 0, 0, 42, last>> :
               tag \in {1, 99}, lol \in Lols, last \in {EOF, 0}}
       \cup {<<BOF, 1, lol>> : lol \in Lols}

NextDecoder ==
    \/ DoRegisterPrimitives
    \/ \E name \in DecoderValues : DoEncode(name, <<1, 2>>)
    \/ \E k \in Cuts : DoDecodeFrame(k)
    \/ \E bs \in DecoderInputs : DoDecodeBytes(bs)

SpecDecoder == Init /\ [][NextDecoder]_vars

\* C3: Decoder.Decode on a proper prefix of a frame that Encoder.Encode
\* returned, the empty prefix and a cut inside the payload included, returns a
\* short-read error (io.EOF or io.ErrUnexpectedEOF) and no value.
C3_TruncationSafety ==
    (ret.op = "Decode" /\ enc.st = "ok" /\ ret.src \in 0..(Len(frame) - 1))
       => /\ ret.st = "err"
          /\ ret.why = "short"
          /\ ret.v = NilValue

\* the frame of a string of BigLen bytes declares BigLen - 65536 payload
\* bytes; cut after the first byte of the string, it is decoded as a frame
\* with a wrong EOF marker
C3_CutTakenForBadMarker ==
    /\ ret.op = "Decode"
    /\ enc.st = "ok"
    /\ enc.v = "LongString"
    /\ ret.src = 6
    /\ ret.st = "err"
    /\ ret.why = "marker"

\* C4: Decoder.Decode returns a value or an error, whatever bytes it reads:
\* it does not panic.
C4_DecodeNeverPanics == ret.op = "Decode" => ret.st \in {"ok", "err"}

\* a stream whose length-of-length byte is 0 or 1 made Decode panic
C4_ShortLengthPanics ==
    /\ ret.op = "Decode"
    /\ ret.src = -1
    /\ ret.st = "panic"

(***************************************************************************)
(* SpecFraming: the Decoder is given streams built from a begin marker, a  *)
(* tag, a length-of-length, a payload and an end marker, right or wrong.   *)
(***************************************************************************)
\* the stream of one frame with lol length bytes, followed by nothing
FramingInput(first, tag, lol, p, last) ==
    <<first, tag, lol>> \o LengthBytes(lol, Len(p)) \o p \o <<last>>

FramingFirsts == {BOF, EOF, 0}
FramingTags == {1, 2, 99}
FramingLols == {0, 2, 3}
FramingPayloads == {<<0, 0, 0, 42>>, <<0, 0, 42>>}
FramingLasts == {EOF, BOF, 0}

NextFraming ==
    \/ DoRegisterPrimitives
    \/ \E first \in FramingFirsts, tag \in FramingTags, lol \in FramingLols,
          p \in FramingPayloads, last \in FramingLasts :
          DoDecodeBytes(FramingInput(first, tag, lol, p, last))

SpecFraming == Init /\ [][NextFraming]_vars

\* Decode of the stream FramingInput(first, tag, lol, p, last) satisfies C11
Framed(first, tag, lol, p, last) ==
    DoDecodeBytes(FramingInput(first, tag, lol, p, last))
       => /\ ret'.st = "ok"
             => /\ first = BOF
                /\ HasCodec(Registry, tag)
                /\ CodecDecode(Registry, GetCodec(Registry, tag), p).st = "ok"
                /\ last = EOF
          /\ first # BOF
             => /\ ret'.st = "err"
                /\ ret'.v = NilValue
                /\ reader' = Tail(FramingInput(first, tag, lol, p, last))
          /\ (first = BOF /\ (~HasCodec(Registry, tag) \/ last # EOF))
             => (ret'.st = "err" /\ ret'.v = NilValue)

\* C11: Decoder.Decode returns a value only if the first byte is AB, the tag
\* is bound to a codec, that codec accepts the payload and the byte after the
\* payload is CD; a wrong begin marker makes it fail with that one byte read;
\* an unbound tag or a wrong end marker makes it return an error and no
\* value, whatever the payload.
C11_FramingErrors ==
    [][\A first \in FramingFirsts, tag \in FramingTags, lol \in FramingLols,
          p \in FramingPayloads, last \in FramingLasts :
          Framed(first, tag, lol, p, last)]_vars

\* C11 for the streams whose length-of-length is at least 2
C11_FramingErrorsFromTwo ==
    [][\A first \in FramingFirsts, tag \in FramingTags, lol \in FramingLols \ {0},
          p \in FramingPayloads, last \in FramingLasts :
          Framed(first, tag, lol, p, last)]_vars

(***************************************************************************)
(* SpecAny: values with parts of the dynamic type interface{} and maps are *)
(* registered, encoded and decoded.                                        *)
(***************************************************************************)
MapValues == {"Map", "OneEntryMap", "EmptyMap", "NilMap32"}

NextAny ==
    \/ DoRegisterPrimitives
    \/ DoRegisterStruct(<<"Holder">>)
    \/ \E name \in AnyValues \cup MapValues : \E ord \in OrdersOf(Values[name]) :
          DoEncode(name, ord)
    \/ DoDecodeFrame(Len(frame))

SpecAny == Init /\ [][NextAny]_vars

\* C12: once the primitives are registered, RegisterStruct of a struct with
\* a field of type interface{} succeeds; Encode of such a struct succeeds, the
\* field holding int32 5 being encoded as the tag of int32, the 16-bit length
\* 4 and the four bytes of 5, and the nil field as a zero-length payload; and
\* Decode of the frame returns the struct encoded.
C12_AnyFieldRoundTrip ==
    /\ (ret.op = "RegisterStruct" /\ ret.t = <<"Holder">> /\ Int32T \in DOMAIN types)
       => ret.st = "ok"
    /\ (Encoded /\ enc.v \in {"Holder", "HolderNil"}) => ret.st = "ok"
    /\ (enc.st = "ok" /\ enc.v = "Holder")
       => SubSeq(Payload, 5, Len(Payload)) = <<1, 0, 4, 0, 0, 0, 5>>
    /\ (enc.st = "ok" /\ enc.v = "HolderNil") => Len(Payload) = 4
    /\ (DecodedFrame /\ enc.v \in {"Holder", "HolderNil"})
       => (ret.st = "ok" /\ ret.v = Values[enc.v])

\* RegisterStruct of the struct with the interface{} field returned an error
\* and bound nothing, the primitives being registered
C12_AnyFieldUnresolved ==
    /\ ret.op = "RegisterStruct"
    /\ ret.t = <<"Holder">>
    /\ Int32T \in DOMAIN types
    /\ ret.st = "err"
    /\ <<"Holder">> \notin DOMAIN types
    /\ AnyT \notin DOMAIN types

\* the map values of SpecAny
Maps == MapValues \cup (AnyValues \ {"Holder", "HolderNil"})

\* C13: Encode of a map value succeeds whatever the order in which it visits
\* the entries, and Decode of the frame returns a map of the same type with
\* exactly the keys of the map encoded, each with an equal value of the same
\* concrete type.
C13_MapRoundTrip ==
    /\ (Encoded /\ enc.v \in Maps) => ret.st = "ok"
    /\ (DecodedFrame /\ enc.v \in Maps)
       => /\ ret.st = "ok"
          /\ ret.v.t = Values[enc.v].t
          /\ ret.v.s = Values[enc.v].s

\* C13 for the decoded map alone, Encode having succeeded
C13_DecodedMapEqual ==
    (DecodedFrame /\ enc.v \in Maps)
       => /\ ret.st = "ok"
          /\ ret.v.t = Values[enc.v].t
          /\ ret.v.s = Values[enc.v].s

\* Encode of a map[string]interface{} holding an []interface{} never returns:
\* the InterfaceCodec finds itself bound to the type of the slice
C13_ListInMapOverflows ==
    /\ Encoded
    /\ enc.v = "AnyMapList"
    /\ ret.st = "overflow"
    /\ codecs[types[<<"slice", "any">>]].kind = "InterfaceCodec"

\* the types that occur in the value v: its own and those of the values it
\* holds, the concrete values in any-typed positions among them
RECURSIVE OccurringTypes(_)
OccurringTypes(v) ==
    {v.t} \cup UNION {OccurringTypes(v.s[i]) : i \in 1..Len(v.s)}

\* C22: when every type that occurs in a value is bound, Encoder.Encode of
\* the value leaves the tag-to-codec map, the type-to-tag map and the next
\* tag counter as they were; Decoder.Decode leaves them as they were on every
\* input.
C22_RegistryReadOnly ==
    [][/\ (ret'.op = "Encode" /\ OccurringTypes(Values[enc'.v]) \subseteq DOMAIN types)
          => UNCHANGED <<codecs, types, nextStructTag>>
       /\ ret'.op = "Decode" => UNCHANGED <<codecs, types, nextStructTag>>]_vars

\* a map with an int32 and a string in its any-typed values was encoded and
\* the registry is as RegisterPrimitives left it
C22_EncodedWithBoundTypes ==
    /\ ret.op = "Encode"
    /\ ret.st = "ok"
    /\ enc.v = "AnyMap2"
    /\ nextStructTag = FirstStructTag
    /\ DOMAIN codecs = {Primitives[i][1] : i \in 1..Len(Primitives)}

(***************************************************************************)
(* SpecRecursive: types are resolved, among them structs that refer to     *)
(* themselves through a pointer, a slice or a map.                         *)
(***************************************************************************)
RecursiveStructs == {<<"Node">>, <<"Tree">>, <<"Index">>}

NextRecursive ==
    \/ DoRegisterPrimitives
    \/ \E t \in RecursiveStructs \cup {<<"Counter">>, <<"Outer">>, <<"Rec">>} :
          DoRegisterStruct(t)
    \/ \E t \in RecursiveStructs \cup {Ptrs(1, <<"Node">>), <<"slice", "Tree">>,
                                       <<"map", "string", "Index">>, Ptrs(2, Int32T), MapT,
                                       Array2T, <<"Outer">>, Ptrs(1, <<"Counter">>),
                                       <<"slice", "Node">>} :
          DoGetTag(t)

SpecRecursive == Init /\ [][NextRecursive]_vars

\* C14: every RegisterStruct and GetTag call returns, with a tag or with an
\* error: the resolution of a type does not recurse without end.
C14_ResolutionTerminates ==
    ret.op \in {"RegisterStruct", "GetTag"} => ret.st \in {"ok", "err"}

\* registering Node, whose field Next is a *Node, never returned, the
\* primitives being registered
C14_SelfReferenceOverflows ==
    /\ ret.op = "RegisterStruct"
    /\ ret.t = <<"Node">>
    /\ Int32T \in DOMAIN types
    /\ ret.st = "overflow"

(***************************************************************************)
(* SpecUnresolvable: the registry and the Encoder are handed values of     *)
(* types that no rule resolves, before and after RegisterPrimitives.       *)
(***************************************************************************)
\* the types handed to GetTag and RegisterStruct
UnresolvableTypes ==
    {NilType, <<"chan">>, <<"func">>, Int32T, StringT, <<"slice", "chan">>,
     Ptrs(1, Int32T), <<"Counter">>}

NextUnresolvable ==
    \/ DoRegisterPrimitives
    \/ \E t \in UnresolvableTypes : DoGetTag(t)
    \/ \E t \in UnresolvableTypes : DoRegisterStruct(t)
    \/ \E name \in UnresolvableValues \cup {"Nil", "Int32", "String", "Pointer", "Counter"} :
          DoEncode(name, <<1, 2>>)

SpecUnresolvable == Init /\ [][NextUnresolvable]_vars

\* no rule of resolveType applies to t: it is the type of the untyped nil, a
\* channel or function type, or a primitive type that is not registered
Unresolvable(t) ==
    \/ t = NilType
    \/ Kind(t) \in {"chan", "func"}
    \/ Head(t) \in PrimNames /\ t \notin DOMAIN types

\* C15: GetTag and Encoder.Encode of a value whose type no rule resolves,
\* and RegisterStruct of such a value, return an error and leave the type
\* unbound; they do not panic.
C15_UnresolvableTypeError ==
    (ret.op \in {"GetTag", "Encode", "RegisterStruct"} /\ Unresolvable(ret.t))
       => (ret.st = "err" /\ ret.t \notin DOMAIN types)

\* GetTag(nil) panicked: reflect.TypeOf(nil) is the nil Type
C15_NilPanics ==
    /\ ret.op = "GetTag"
    /\ ret.t = NilType
    /\ ret.st = "panic"

\* C15 for the typed values: channels, functions, unregistered primitives
C15_TypedUnresolvableError ==
    (ret.op \in {"GetTag", "Encode", "RegisterStruct"} /\ Unresolvable(ret.t) /\ ret.t # NilType)
       => (ret.st = "err" /\ ret.t \notin DOMAIN types)

(***************************************************************************)
(* SpecStructDecode: the codec of a registered struct is handed payloads   *)
(* made of TLVs in any order and number.                                   *)
(***************************************************************************)
TLV(tag, lol, p) == [tag |-> tag, lol |-> lol, p |-> p]

\* the TLVs the payloads are made of: the fields X = 7 and Name = "a" of a
\* Point, an int8, an int32 of three bytes, and X = 7 with length-of-length 3
TLVs ==
    {TLV(1, LengthOfLength, <<0, 0, 0, 7>>), TLV(2, LengthOfLength, <<97>>),
     TLV(7, LengthOfLength, <<7>>), TLV(1, LengthOfLength, <<0, 0, 7>>),
     TLV(1, 3, <<0, 0, 0, 7>>)}

\* the most TLVs in a payload
MaxTLVs == 2

TLVSeqs == UNION {[1..n -> TLVs] : n \in 0..MaxTLVs}

\* the bytes of a sequence of TLVs
TLVBytes(tlvs) ==
    LET F[i \in 0..Len(tlvs)] ==
            IF i = 0 THEN <<>>
            ELSE F[i - 1] \o <<tlvs[i].tag, tlvs[i].lol>> \o U16(Len(tlvs[i].p)) \o tlvs[i].p
    IN  F[Len(tlvs)]

\* the tags bound to StructCodecs
StructTags == {tag \in DOMAIN codecs : codecs[tag].kind = "StructCodec"}

NextStructDecode ==
    \/ DoRegisterPrimitives
    \/ \E t \in {<<"Point">>, <<"Counter">>, <<"Empty">>, <<"Outer">>, <<"Rec">>, <<"Pair">>} :
          DoRegisterStruct(t)
    \/ \E tag \in StructTags : \E tlvs \in TLVSeqs : DoCodecDecode(tag, TLVBytes(tlvs))

SpecStructDecode == Init /\ [][NextStructDecode]_vars

\* the first TLVs of tlvs carry the tags of the descriptor entries, in order
TagsInOrder(fields, tlvs) ==
    /\ Len(tlvs) >= Len(fields)
    /\ \A i \in 1..Len(fields) : tlvs[i].tag = fields[i].typeTag

\* Decode of the struct codec at tag, given the bytes of tlvs, satisfies C16
StrictlyDecoded(tag, tlvs) ==
    DoCodecDecode(tag, TLVBytes(tlvs))
       => /\ ret'.st \in {"ok", "err"}
          /\ ret'.st = "ok"
             => /\ TagsInOrder(codecs[tag].fields, tlvs)
                /\ ret'.v.t = codecs[tag].typ
                /\ \A i \in 1..Len(codecs[tag].fields) :
                      CodecDecode(Registry, codecs[tlvs[i].tag], tlvs[i].p)
                         = DRes("ok", ret'.v.s[i])
          /\ ~TagsInOrder(codecs[tag].fields, tlvs)
             => (ret'.st = "err" /\ ret'.v = NilValue)

\* C16: StructCodec.Decode returns a struct only if the payload holds one
\* TLV per descriptor entry, in registration order, the i-th with the tag of
\* the i-th entry, and then the i-th field holds what that TLV's payload
\* decodes to; if a TLV's tag differs from the entry's or the payload holds
\* fewer TLVs than the descriptor has entries, it returns an error and no
\* struct.
C16_StrictStructDecode ==
    [][ret'.op = "Codec.Decode"
          => \A tlvs \in TLVSeqs : StrictlyDecoded(ret'.tag, tlvs)]_vars

\* the codec of Point was handed the TLV of Name before the TLV of X and
\* returned an error and no value
C16_SwappedFieldsRejected ==
    /\ ret.op = "Codec.Decode"
    /\ <<"Point">> \in DOMAIN types
    /\ ret.tag = types[<<"Point">>]
    /\ ret.src = Len(TLVBytes(<<TLV(2, LengthOfLength, <<97>>),
                                 TLV(1, LengthOfLength, <<0, 0, 0, 7>>)>>))
    /\ ret.st = "err"
    /\ ret.v = NilValue

(***************************************************************************)
(* SpecSlice: slices of int32 are encoded, and the codec bound to the      *)
(* slice type decodes payloads of a count and length-prefixed elements.    *)
(***************************************************************************)
\* an element as SliceCodec.Encode writes it: 32-bit length, payload
SliceElem(p) == U32(Len(p)) \o p

\* elements: 7, -2, one of three bytes, one cut in its payload, one cut in
\* its length
SliceElems ==
    {SliceElem(<<0, 0, 0, 7>>), SliceElem(<<255, 255, 255, 254>>), SliceElem(<<1, 2, 3>>),
     <<0, 0, 0, 4, 0, 0>>, <<0, 0>>}

MaxSliceElems == 2

ElemSeqs == UNION {[1..n -> SliceElems] : n \in 0..MaxSliceElems}

RECURSIVE Flatten(_)
Flatten(es) == IF es = <<>> THEN <<>> ELSE Head(es) \o Flatten(Tail(es))

\* the counts declared: 0 to 3, 2^31 and 2^32 - 1
CountBytes ==
    {U32(n) : n \in 0..(MaxSliceElems + 1)} \cup {<<128, 0, 0, 0>>, <<255, 255, 255, 255>>}

SlicePayloads == {cb \o Flatten(es) : cb \in CountBytes, es \in ElemSeqs} \cup {<<>>, <<0, 0>>}

SliceNames == {"Slice", "EmptySlice", "NilSlice32"}

NextSlice ==
    \/ calls = 0 /\ DoRegisterPrimitives
    \/ \E name \in SliceNames : DoEncode(name, <<1, 2>>)
    \/ DoDecodeFrame(Len(frame))
    \/ /\ SliceType(Int32T) \in DOMAIN types
       /\ \E data \in SlicePayloads : DoCodecDecode(types[SliceType(Int32T)], data)

SpecSlice == Init /\ [][NextSlice]_vars

\* the elements of the slice value v from index i on, as the claim has them
\* written: a 32-bit length and the payload of the element codec
RECURSIVE ElemsBytes(_, _)
ElemsBytes(v, i) ==
    IF i > Len(v.s) THEN <<>>
    ELSE SliceElem(CodecEncode(Registry, codecs[types[Int32T]], v.s[i], <<1, 2>>).b)
            \o ElemsBytes(v, i + 1)

\* the number of complete elements at the head of rest: a 32-bit length and
\* as many bytes
RECURSIVE CompleteElems(_)
CompleteElems(rest) ==
    IF Len(rest) < 4 THEN 0
    ELSE IF Len(rest) - 4 < U32Val(SubSeq(rest, 1, 4)) THEN 0
    ELSE 1 + CompleteElems(SubSeq(rest, 5 + U32Val(SubSeq(rest, 1, 4)), Len(rest)))

\* the count a payload of four bytes or more declares
Declared(data) == U32Val(SubSeq(data, 1, 4))

\* the slice codec was handed data and returned: with fewer complete elements
\* than declared it returned an error; when it returned a slice, the slice
\* has the declared number of elements
SliceDecoded(data) ==
    (ret'.src = Len(data) /\ DoCodecDecode(types[SliceType(Int32T)], data))
    => /\ (Len(data) >= 4 /\ CompleteElems(SubSeq(data, 5, Len(data))) < Declared(data))
          => ret'.st = "err"
       /\ ret'.st = "ok" => (Len(data) >= 4 /\ Len(ret'.v.s) = Declared(data))

\* C18: SliceCodec.Encode writes the 32-bit big-endian count n, then in
\* index order a 32-bit length and the payload of each element; Decode of
\* that payload returns the n elements in order; and Decode returns an error
\* whenever the payload holds fewer complete elements than the count it
\* declares.
C18_SliceCodec ==
    /\ [](/\ (enc.st = "ok" /\ enc.v \in SliceNames)
             => Payload = U32(Len(Values[enc.v].s)) \o ElemsBytes(Values[enc.v], 1)
          /\ (DecodedFrame /\ enc.v \in SliceNames)
             => (ret.st = "ok" /\ ret.v.s = Values[enc.v].s))
    /\ [][(ret'.op = "Codec.Decode" /\ SliceType(Int32T) \in DOMAIN types)
            => \A data \in SlicePayloads : SliceDecoded(data)]_vars

\* the same for the payloads that declare fewer than 2^31 elements
C18_SliceCodecBelowTwoGiga ==
    /\ [](/\ (enc.st = "ok" /\ enc.v \in SliceNames)
             => Payload = U32(Len(Values[enc.v].s)) \o ElemsBytes(Values[enc.v], 1)
          /\ (DecodedFrame /\ enc.v \in SliceNames)
             => (ret.st = "ok" /\ ret.v.s = Values[enc.v].s))
    /\ [][(ret'.op = "Codec.Decode" /\ SliceType(Int32T) \in DOMAIN types)
            => \A data \in {d \in SlicePayloads : Len(d) < 4 \/ d[1] < 128} :
                  SliceDecoded(data)]_vars

\* the codec of []int32 was handed the count 2^32 - 1 and no element: the
\* call did not return
C18_HugeCountPanics ==
    /\ ret.op = "Codec.Decode"
    /\ SliceType(Int32T) \in DOMAIN types
    /\ ret.tag = types[SliceType(Int32T)]
    /\ ret.src = 4
    /\ ret.st = "panic"

(***************************************************************************)
(* SpecInt: the eleven integer codecs on the whole range of their types.   *)
(* An integer is its sign and the bytes of its magnitude, big-endian, so   *)
(* that the 64-bit values are within reach.                                *)
(***************************************************************************)
WideInt(nm, neg, mag) == [t |-> <<nm>>, neg |-> neg, mag |-> mag]

\* the size in bytes of a Go integer type where int has 64 bits
Width(nm) ==
    CASE nm \in {"int8", "uint8"} -> 1
      [] nm \in {"int16", "uint16"} -> 2
      [] nm \in {"int32", "uint32"} -> 4
      [] nm \in {"int64", "uint64", "int", "uint", "uintptr"} -> 8

Invert(bs) == [i \in 1..Len(bs) |-> 255 - bs[i]]

RECURSIVE AddOne(_)
AddOne(bs) ==
    IF bs = <<>> THEN <<>>
    ELSE IF bs[Len(bs)] = 255 THEN AddOne(SubSeq(bs, 1, Len(bs) - 1)) \o <<0>>
    ELSE [bs EXCEPT ![Len(bs)] = @ + 1]

\* 2^N - u modulo 2^N on the N bits of bs
Negated(bs) == AddOne(Invert(bs))

\* uintN(x): the N bits of x in two's complement
TwosComplement(x) == IF x.neg THEN Negated(x.mag) ELSE x.mag

\* the conversion to w bytes that precedes PutUintN: int64(intVal),
\* uint64(uintVal)
Resized(bs, w, neg) ==
    IF Len(bs) >= w THEN SubSeq(bs, Len(bs) - w + 1, Len(bs))
    ELSE Rep(IF neg THEN 255 ELSE 0, w - Len(bs)) \o bs

\* the decoded bytes read as a value that is never negative
FromUnsigned(nm, bs, signed) == WideInt(nm, FALSE, bs)

\* intN(u) for the signed types, u itself for the unsigned
FromTwosComplement(nm, bs, signed) ==
    IF signed /\ bs[1] >= 128 THEN WideInt(nm, TRUE, Negated(bs)) ELSE WideInt(nm, FALSE, bs)

\* the Encode of the integer codec kind: the type assertion, then the value
\* on the codec's width
WideEncode(kind, x) ==
    LET d == IntCodecs[kind]
    IN  IF x.t # <<d.t>> THEN [st |-> "err", b |-> <<>>]
        ELSE [st |-> "ok", b |-> Resized(TwosComplement(x), d.w, x.neg)]

\* the Decode of the integer codec kind: the length check, then the value of
\* the codec's type
WideDecode(kind, data) ==
    LET d == IntCodecs[kind]
    IN  IF Len(data) # d.w THEN DErr
        ELSE DRes("ok", FromTwosComplement(d.t, Resized(data, Width(d.t), FALSE), d.signed))

\* the values of a type: zero, one, the maximum, and for the signed types
\* minus one, the minimum and minus 256; for the unsigned 2^(N-1)
WideValues(nm, signed) ==
    LET w == Width(nm)
    IN  {WideInt(nm, FALSE, Rep(0, w)),
         WideInt(nm, FALSE, Rep(0, w - 1) \o <<1>>),
         WideInt(nm, FALSE, <<IF signed THEN 127 ELSE 255>> \o Rep(255, w - 1)),
         WideInt(nm, signed, <<128>> \o Rep(0, w - 1))}
        \cup (IF signed THEN {WideInt(nm, TRUE, Rep(0, w - 1) \o <<1>>)} ELSE {})
        \cup (IF signed /\ w > 1 THEN {WideInt(nm, TRUE, Rep(0, w - 2) \o <<1, 0>>)} ELSE {})

\* what each codec is handed: the values of its type and one value of
\* another type
WideInputs(kind) ==
    WideValues(IntCodecs[kind].t, IntCodecs[kind].signed)
        \cup {IF kind = "Int32Codec" THEN WideInt("int64", FALSE, Rep(0, 7) \o <<1>>)
              ELSE WideInt("int32", FALSE, <<0, 0, 0, 1>>)}

MaxPad == 1

\* codec.Encode(x) of the integer codec kind; frame is the slice returned
DoIntEncode(kind, x) ==
    /\ enc' = [v |-> x, st |-> WideEncode(kind, x).st]
    /\ frame' = WideEncode(kind, x).b
    /\ ret' = Ret("Int.Encode", WideEncode(kind, x).st, "", x, 0, <<IntCodecs[kind].t>>, 0)
    /\ UNCHANGED <<codecs, types, nextStructTag, calls, buffer, reader, held, goroutines>>

\* codec.Decode of the first k bytes of the slice last returned, followed by
\* bytes 255
DoIntDecode(kind, k) ==
    /\ k \in 0..(Len(frame) + MaxPad)
    /\ ret' = Ret("Int.Decode", WideDecode(kind, SubSeq(frame \o Rep(255, MaxPad), 1, k)).st, "",
                  WideDecode(kind, SubSeq(frame \o Rep(255, MaxPad), 1, k)).v, 0,
                  <<IntCodecs[kind].t>>, k)
    /\ UNCHANGED <<codecs, types, nextStructTag, calls, buffer, enc, frame, reader, held, goroutines>>

NextInt ==
    \/ \E kind \in DOMAIN IntCodecs : \E x \in WideInputs(kind) : DoIntEncode(kind, x)
    \/ \E kind \in DOMAIN IntCodecs : \E k \in 0..(8 + MaxPad) : DoIntDecode(kind, k)

SpecInt == Init /\ [][NextInt]_vars

\* the sum of two byte strings of one length, modulo 2^N
RECURSIVE SumBytes(_, _, _)
SumBytes(a, b, carry) ==
    IF a = <<>> THEN <<>>
    ELSE SumBytes(SubSeq(a, 1, Len(a) - 1), SubSeq(b, 1, Len(b) - 1),
                  (a[Len(a)] + b[Len(b)] + carry) \div 256)
            \o <<(a[Len(a)] + b[Len(b)] + carry) % 256>>

\* C19: an integer codec encodes a value of its type on exactly the width of
\* the type (1, 2, 4 or 8 bytes; 8 for int, uint and uintptr), big-endian: a
\* value that is not negative as its magnitude, a negative one as 2^N minus
\* its magnitude; Decode returns an error exactly when the length of its
\* input differs from that width; and Decode of what Encode returned is the
\* value encoded, the minimum and the maximum of the type included.
C19_IntegerCodecs ==
    /\ (ret.op = "Int.Encode" /\ ret.v.t = ret.t)
       => /\ ret.st = "ok"
          /\ Len(frame) = Width(Head(ret.t))
          /\ ~ret.v.neg => frame = ret.v.mag
          /\ ret.v.neg => /\ frame[1] >= 128
                          /\ SumBytes(frame, ret.v.mag, 0) = Rep(0, Len(frame))
    /\ ret.op = "Int.Decode"
       => /\ ret.st \in {"ok", "err"}
          /\ ret.st = "err" <=> ret.src # Width(Head(ret.t))
    /\ (ret.op = "Int.Decode" /\ enc.st = "ok" /\ enc.v.t = ret.t /\ ret.src = Len(frame))
       => (ret.st = "ok" /\ ret.v = enc.v)

\* the minimum of int64 was encoded as 80 00 00 00 00 00 00 00 and decoded
C19_MinInt64RoundTrip ==
    /\ ret.op = "Int.Decode"
    /\ ret.st = "ok"
    /\ frame = <<128, 0, 0, 0, 0, 0, 0, 0>>
    /\ ret.src = 8
    /\ ret.v = WideInt("int64", TRUE, <<128, 0, 0, 0, 0, 0, 0, 0>>)
    /\ enc.v = ret.v

(***************************************************************************)
(* SpecBool: booleans are encoded and decoded, and the codecs of bool and   *)
(* of uint8 are handed the payloads of one byte.                           *)
(***************************************************************************)
BoolNames == {n \in CodecValues : Values[n].t = <<"bool">>}

\* the payloads of one byte, the empty one and one of two bytes
BytePayloads == {<<b>> : b \in 0..(ByteMod - 1)} \cup {<<>>, <<1, 0>>}

NextBool ==
    \/ calls = 0 /\ DoRegisterPrimitives
    \/ \E name \in BoolNames : DoEncode(name, <<1, 2>>)
    \/ DoDecodeFrame(Len(frame))
    \/ \E t \in {<<"bool">>, <<"uint8">>} : \E data \in BytePayloads :
          t \in DOMAIN types /\ DoCodecDecode(types[t], data)

SpecBool == Init /\ [][NextBool]_vars

\* false is encoded as the byte 0 and true as the byte 1, and the frame of a
\* boolean decodes to the boolean
BoolRoundTrip ==
    /\ (ret.op = "Encode" /\ enc.v \in BoolNames /\ <<"bool">> \in DOMAIN types)
       => /\ ret.st = "ok"
          /\ Payload = (IF Values[enc.v] = Bool(TRUE) THEN <<1>> ELSE <<0>>)
    /\ (DecodedFrame /\ enc.v \in BoolNames) => (ret.st = "ok" /\ ret.v = Values[enc.v])

\* C20: BoolCodec encodes false as the single byte 0 and true as the single
\* byte 1, and Decode of what Encode returned is the value encoded; Decode
\* of a single byte other than 0 and 1 returns true or an error, never false.
C20_BoolCodec ==
    /\ []BoolRoundTrip
    /\ [][(ret'.op = "Codec.Decode" /\ ret'.src = 1 /\ <<"bool">> \in DOMAIN types
             /\ ret'.tag = types[<<"bool">>])
            => \A b \in 2..(ByteMod - 1) :
                  DoCodecDecode(types[<<"bool">>], <<b>>)
                     => (ret'.st = "err" \/ (ret'.st = "ok" /\ ret'.v = Bool(TRUE)))]_vars

\* the half of C20 about the bytes 0 and 1
C20_BoolRoundTrip == []BoolRoundTrip

(***************************************************************************)
(* SpecOwned: the caller keeps a slice Encode returned and goes on         *)
(* encoding, with calls that fail among them.                              *)
(***************************************************************************)
OwnedValues == {"Int32", "String", "Counter", "Slice", "Hidden", "NilPointer", "Chan", "True"}

NextOwned ==
    \/ calls = 0 /\ DoRegisterPrimitives
    \/ \E name \in OwnedValues : DoEncode(name, <<1, 2>>)
    \/ \E name \in OwnedValues : DoEncodeKept(name, <<1, 2>>)

SpecOwned == Init /\ [][NextOwned]_vars

\* C21: the slice an Encode call returned keeps the bytes it was returned
\* with whatever the Encoder encodes later; an Encode that fails returns no
\* bytes; and the slice a successful Encode returns is one frame of the value
\* encoded, BOF and tag first, with nothing of an earlier call before it.
C21_OwnedResult ==
    /\ held.s.b = held.was
    /\ (ret.op = "Encode" /\ ret.st # "ok") => frame = <<>>
    /\ (ret.op = "Encode" /\ ret.st = "ok")
       => /\ Values[enc.v].t \in DOMAIN types
          /\ frame = Frame(types[Values[enc.v].t], Payload)
          /\ buffer = frame

\* the caller kept a frame and a later Encode, of the string, returned a
\* frame of another length
C21_EncodedAfterKeeping ==
    /\ held.was # <<>>
    /\ ret.op = "Encode"
    /\ ret.st = "ok"
    /\ Len(frame) # Len(held.was)
    /\ enc.v = "String"

(***************************************************************************)
(* SpecRace: two goroutines call GetTag on the shared registry, each for a *)
(* slice type of a primitive element; the statements of resolveType        *)
(* interleave.                                                             *)
(***************************************************************************)
RaceTypes == {SliceType(<<"int8">>), SliceType(<<"string">>), SliceType(Int32T)}

\* goroutine g is inside its call
InCall(g) == goroutines[g].pc \in {"read", "inc", "bind"}

\* g calls registry.GetTag of a value of type t: the lookups of GetTag and of
\* resolveType, the element type resolved from the map, its codec fetched
GoGetTag(g, t) ==
    /\ goroutines[g].pc = "idle"
    /\ goroutines' =
         [h \in Goroutines |->
            IF h # g THEN [goroutines[h] EXCEPT !.overlapped = @ \/ InCall(h)]
            ELSE IF t \in DOMAIN types
                 THEN [Idle EXCEPT !.pc = "done", !.t = t, !.tag = types[t], !.st = "cached"]
            ELSE IF Elem(t) \notin DOMAIN types \/ ~HasCodec(Registry, types[Elem(t)])
                 THEN [Idle EXCEPT !.pc = "done", !.t = t, !.st = "err"]
            ELSE [Idle EXCEPT !.pc = "read", !.t = t,
                              !.codec = SliceCodec(GetCodec(Registry, types[Elem(t)]), Elem(t)),
                              !.overlapped = \E o \in Goroutines \ {g} : InCall(o)]]
    /\ UNCHANGED <<codecs, types, nextStructTag, calls, buffer, enc, frame, reader, ret, held>>

\* sliceTag := r.nextStructTag
GoReadTag(g) ==
    /\ goroutines[g].pc = "read"
    /\ goroutines' = [goroutines EXCEPT ![g].pc = "inc", ![g].tag = nextStructTag]
    /\ UNCHANGED <<codecs, types, nextStructTag, calls, buffer, enc, frame, reader, ret, held>>

\* r.nextStructTag++
GoIncrement(g) ==
    /\ goroutines[g].pc = "inc"
    /\ nextStructTag' = NextTag(nextStructTag)
    /\ goroutines' = [goroutines EXCEPT ![g].pc = "bind"]
    /\ UNCHANGED <<codecs, types, calls, buffer, enc, frame, reader, ret, held>>

\* r.RegisterCodec(sliceTag, codec, sliceZero); return t, sliceTag, nil
GoRegisterCodec(g) ==
    /\ goroutines[g].pc = "bind"
    /\ codecs' = RegisterCodec(Registry, goroutines[g].tag, goroutines[g].codec,
                               goroutines[g].t).codecs
    /\ types' = RegisterCodec(Registry, goroutines[g].tag, goroutines[g].codec,
                              goroutines[g].t).types
    /\ calls' = calls + 1
    /\ goroutines' = [goroutines EXCEPT ![g].pc = "done", ![g].st = "ok"]
    /\ UNCHANGED <<nextStructTag, buffer, enc, frame, reader, ret, held>>

NextRace ==
    \/ calls = 0 /\ (\A g \in Goroutines : ~InCall(g)) /\ DoRegisterPrimitives
    \/ \E g \in Goroutines : \E t \in RaceTypes : GoGetTag(g, t)
    \/ \E g \in Goroutines : GoReadTag(g)
    \/ \E g \in Goroutines : GoIncrement(g)
    \/ \E g \in Goroutines : GoRegisterCodec(g)

SpecRace == Init /\ [][NextRace]_vars

\* both goroutines resolved a type nobody had seen, and not the same one
BothResolved ==
    /\ \A g \in Goroutines : goroutines[g].pc = "done" /\ goroutines[g].st = "ok"
    /\ goroutines[1].t # goroutines[2].t

\* C23: two GetTag calls for two distinct unseen types on a shared registry:
\* when neither call ran while the other was in progress the two types are
\* bound to distinct tags, each tag to the codec of its type; when the calls
\* interleave and both get the same tag, both types are bound to that tag and
\* the tag holds the codec of only one of them.
C23_UnsafeFirstUse ==
    BothResolved
    => /\ (\A g \in Goroutines : ~goroutines[g].overlapped)
          => /\ goroutines[1].tag # goroutines[2].tag
             /\ \A g \in Goroutines :
                   /\ types[goroutines[g].t] = goroutines[g].tag
                   /\ codecs[goroutines[g].tag] = goroutines[g].codec
       /\ goroutines[1].tag = goroutines[2].tag
          => /\ \A g \in Goroutines : goroutines[g].overlapped
             /\ types[goroutines[1].t] = types[goroutines[2].t]
             /\ \E g \in Goroutines : codecs[goroutines[g].tag] # goroutines[g].codec

\* the interleaving in which both goroutines read the same next tag: the two
\* types are bound to tag 200 and one codec has overwritten the other
C23_SameTagTwice ==
    /\ BothResolved
    /\ goroutines[1].tag = FirstStructTag
    /\ goroutines[2].tag = FirstStructTag
    /\ types[goroutines[1].t] = types[goroutines[2].t]
    /\ codecs[FirstStructTag] # goroutines[1].codec

(***************************************************************************)
(* SpecStream: DecodeStream is handed streams of objects, whole and cut.   *)
(***************************************************************************)
\* a field of an object: tag, value bytes, the value the schema gives them
StreamField(tag, bytes, v) == [tag |-> tag, bytes |-> bytes, v |-> v]

\* objects: one int32; a string and an int32; no field; one float64
StreamObjects ==
    {<<StreamField(1, <<0, 0, 0, 7>>, I32(7))>>,
     <<StreamField(2, <<97>>, Str(<<97>>)), StreamField(1, <<255, 255, 255, 254>>, I32(-2))>>,
     <<>>,
     <<StreamField(3, <<64, 9, 33, 251, 84, 68, 45, 24>>,
                   Bits("float64", <<64, 9, 33, 251, 84, 68, 45, 24>>))>>}

MaxObjects == 2

ObjectSeqs == UNION {[1..n -> StreamObjects] : n \in 0..MaxObjects}

\* the TLV payload of an object: tag, length-of-length 2, length, value
RECURSIVE FieldBytes(_)
FieldBytes(fs) ==
    IF fs = <<>> THEN <<>>
    ELSE <<Head(fs).tag, 2>> \o U16(Len(Head(fs).bytes)) \o Head(fs).bytes
            \o FieldBytes(Tail(fs))

\* the frame of an object: length-of-length 2, two length bytes, the TLV
\* payload, the object end marker
ObjectFrame(fs) == <<2>> \o U16(Len(FieldBytes(fs))) \o FieldBytes(fs) \o ObjectEndMarker

RECURSIVE ObjectFrames(_)
ObjectFrames(objs) ==
    IF objs = <<>> THEN <<>> ELSE ObjectFrame(Head(objs)) \o ObjectFrames(Tail(objs))

\* the stream of the objects: begin marker, frames, the bytes that end it
StreamOf(objs, end) == BOFMarker \o ObjectFrames(objs) \o end

\* the map an object decodes to: tag to value
RECURSIVE ObjectMap(_)
ObjectMap(fs) ==
    IF fs = <<>> THEN EmptyFn
    ELSE Put(ObjectMap(SubSeq(fs, 1, Len(fs) - 1)), fs[Len(fs)].tag, fs[Len(fs)].v)

\* how the streams handed over end: the end marker, a zero byte and the end
\* marker, nothing
StreamEnds == {EOFMarker, <<0>> \o EOFMarker, <<>>}

\* frames that are not well-formed: length-of-length 4 before a payload of
\* five bytes, a field whose tag the schema lacks, a field of a type that
\* decodeValue does not convert, an int32 field without bytes, a wrong
\* object end marker
OddFrames ==
    {<<4, 0, 0, 0, 5>> \o <<2, 2, 0, 1, 97>> \o ObjectEndMarker,
     <<2, 0, 4>> \o <<9, 2, 0, 0>> \o ObjectEndMarker,
     <<2, 0, 5>> \o <<4, 2, 0, 1, 1>> \o ObjectEndMarker,
     <<2, 0, 4>> \o <<1, 2, 0, 0>> \o ObjectEndMarker,
     <<2, 0, 0>> \o <<102, 102, 102, 0>>}

\* the streams handed over, whole and cut after every byte
Prefixes(bs) == {SubSeq(bs, 1, k) : k \in 0..Len(bs)}

StreamInputs ==
    UNION {Prefixes(StreamOf(objs, end)) : objs \in ObjectSeqs, end \in StreamEnds}
    \cup UNION {Prefixes(BOFMarker \o f \o EOFMarker) : f \in OddFrames}
    \cup {<<0, 0, 0, 0>>}

\* DecodeStream returned d
StreamReturns(input, d) ==
    /\ reader' = d.rest
    /\ ret' = Ret("DecodeStream", d.st, d.why, d.v, 0, NilType, Len(input))
    /\ UNCHANGED <<codecs, types, nextStructTag, calls, buffer, enc, frame, held, goroutines>>

\* NewDecoder(bytes.NewReader(input), schema).DecodeStream()
DoDecodeStream(input) == StreamReturns(input, DecodeStream(input))

NextStream == \E input \in StreamInputs : DoDecodeStream(input)

SpecStream == Init /\ [][NextStream]_vars

\* DecodeStream was handed the objects objs followed by end, and returned
\* them in stream order with no error
StreamDecoded(objs, end) ==
    (ret'.src = Len(StreamOf(objs, end)) /\ DoDecodeStream(StreamOf(objs, end)))
    => /\ ret'.st = "ok"
       /\ ret'.v = [i \in 1..Len(objs) |-> ObjectMap(objs[i])]

\* C24: DecodeStream of the begin marker 80 00 00 00, n >= 0 well-formed
\* object frames and the end marker 00 00 00 01 returns the n decoded
\* objects in stream order and no error.
C24_StreamContainer ==
    [][ret'.op = "DecodeStream"
         => \A objs \in ObjectSeqs : StreamDecoded(objs, EOFMarker)]_vars

\* the same streams with a zero byte before the end marker
C24_StreamEndedByZeroLength ==
    [][ret'.op = "DecodeStream"
         => \A objs \in ObjectSeqs : StreamDecoded(objs, <<0>> \o EOFMarker)]_vars

\* the begin marker and the end marker, no object between them: the first
\* byte of the end marker was read as a length-of-length and the three that
\* follow are too few for an end marker
C24_EndMarkerCut ==
    /\ ret.op = "DecodeStream"
    /\ ret.src = Len(BOFMarker) + Len(EOFMarker)
    /\ ret.st = "err"
    /\ ret.why = "UnexpectedEOF"
    /\ reader = <<>>

(***************************************************************************)
(* SpecSequence: frames are written one after the other to a byte source   *)
(* and one Decoder decodes them one call at a time.                        *)
(***************************************************************************)
SequenceValues == {"Int32", "String", "Counter", "NilSlice32"}

MaxStreamLen == 28
MaxFrames == 2

NextSequence ==
    \/ calls = 0 /\ DoRegisterPrimitives
    \/ \E name \in SequenceValues : DoEncode(name, <<1, 2>>)
    \/ DoWriteFrame(MaxStreamLen)
    \/ DoDecodeNext

SpecSequence == Init /\ [][NextSequence]_vars

NameSeqs(names) == UNION {[1..n -> names] : n \in 0..MaxFrames}

\* the frames Encode returns for the named values, one after the other, the
\* types of the values being bound
RECURSIVE FramesOf(_)
FramesOf(names) ==
    IF names = <<>> THEN <<>>
    ELSE Encode(Registry, Values[Head(names)], <<1, 2>>).b \o FramesOf(Tail(names))

\* the byte source holds the frames of the named values and Decode is
\* called: after the last frame it returns a short-read error and no value,
\* before that the first of the values, and the frames of the others are
\* left unread
DecodedNext(names) ==
    ((\A i \in 1..Len(names) : Values[names[i]].t \in DOMAIN types)
       /\ reader = FramesOf(names) /\ DoDecodeNext)
    => IF names = <<>>
       THEN ret'.st = "err" /\ ret'.why = "short" /\ ret'.v = NilValue
       ELSE /\ ret'.st = "ok"
            /\ ret'.v = Values[Head(names)]
            /\ reader' = FramesOf(Tail(names))

\* C25: when the byte source of a Decoder holds the frames Encode(v1), ...,
\* Encode(vn), each Decode call returns the first value whose frame is still
\* unread and consumes exactly the bytes of that frame, and the call after
\* the last frame returns a short-read error and no value.
C25_FramesInOrder ==
    [][ret'.op = "Decode" => \A names \in NameSeqs(SequenceValues) : DecodedNext(names)]_vars

\* the same for the values that Decode returns as they were encoded
C25_RoundTrippingFramesInOrder ==
    [][ret'.op = "Decode"
         => \A names \in NameSeqs(SequenceValues \ {"NilSlice32"}) : DecodedNext(names)]_vars

\* the source held the frame of the nil slice and Decode returned an empty
\* slice that is not nil
C25_NilSliceDecodedEmpty ==
    /\ ret.op = "Decode"
    /\ ret.st = "ok"
    /\ ret.v = SliceOf(Int32T, <<>>)
    /\ ret.v # Values["NilSlice32"]

(***************************************************************************)
(* SpecLength: Decoder.Decode and DecodeObject are given frames whose      *)
(* length is written big-endian in as many length bytes as the             *)
(* length-of-length byte announces.                                        *)
(***************************************************************************)
\* the length-of-length bytes of the frames
LengthLols == {2, 3, 4}

\* a tag of RegisterPrimitives and a payload its codec decodes
LengthPayloads ==
    {<<1, <<0, 0, 0, 7>> >>, <<1, <<255, 255, 255, 254>> >>,
     <<2, <<97, 98, 99, 100, 101>> >>, <<2, <<97>> >>, <<2, <<>> >>,
     <<2, <<98, 99>> >>, <<4, <<0, 0, 0, 0, 0, 0, 1, 0>> >>,
     <<5, <<1>> >>, <<5, <<0>> >>, <<7, <<255>> >>, <<8, <<1, 0>> >>, <<8, <<255, 255>> >>,
     <<10, <<205>> >>, <<10, <<0>> >>, <<11, <<1, 2>> >>, <<12, <<0, 0, 1, 0>> >>,
     <<1, <<0, 0, 1, 0>> >>, <<2, <<120, 121, 122>> >>, <<7, <<1>> >>, <<11, <<0, 0>> >>,
     <<12, <<0, 0, 0, 9>> >>, <<1, <<0, 0, 0, 1>> >>, <<2, <<65>> >>, <<10, <<7>> >>}

\* a frame of Decoder.Decode with lol length bytes that hold, big-endian,
\* the length of the payload
WideFrame(tag, lol, p) == <<BOF, tag, lol>> \o BytesOf(Len(p), lol) \o p \o <<EOF>>

\* an object frame of DecodeObject with lol length bytes that hold,
\* big-endian, the length of the TLV data
WideObjectFrame(lol, fs) ==
    <<lol>> \o BytesOf(Len(FieldBytes(fs)), lol) \o FieldBytes(fs) \o ObjectEndMarker

\* NewDecoder(bytes.NewReader(input), schema).DecodeObject()
DoDecodeObject(input) ==
    LET o == DecodeObject(input)
    IN  /\ reader' = o.rest
        /\ ret' = Ret("DecodeObject", o.st, o.why, o.v, 0, NilType, Len(input))
        /\ UNCHANGED <<codecs, types, nextStructTag, calls, buffer, enc, frame, held,
                       goroutines>>

NextLength ==
    \/ calls = 0 /\ DoRegisterPrimitives
    \/ \E tp \in LengthPayloads, lol \in LengthLols : DoDecodeBytes(WideFrame(tp[1], lol, tp[2]))
    \/ \E fs \in StreamObjects, lol \in LengthLols : DoDecodeObject(WideObjectFrame(lol, fs))

SpecLength == Init /\ [][NextLength]_vars

\* Decode of the frame with lol length bytes returns what the codec of the
\* tag decodes from the payload and reads the whole frame
WideFrameDecoded(tag, lol, p) ==
    (HasCodec(Registry, tag) /\ DoDecodeBytes(WideFrame(tag, lol, p)))
    => /\ ret'.st = "ok"
       /\ ret'.v = CodecDecode(Registry, GetCodec(Registry, tag), p).v
       /\ reader' = <<>>

\* DecodeObject of the object frame with lol length bytes returns the
\* fields of the object and reads the whole frame
WideObjectDecoded(lol, fs) ==
    DoDecodeObject(WideObjectFrame(lol, fs))
    => /\ ret'.st = "ok"
       /\ ret'.v = ObjectMap(fs)
       /\ reader' = <<>>

\* C26: Decoder.Decode and DecodeObject take for the length of the payload
\* the big-endian number that all the length bytes announced by the
\* length-of-length byte form: a frame with length-of-length 4 and the length
\* bytes 00 00 00 05 is read as a frame of 5 payload bytes.
C26_AllLengthBytes ==
    [][/\ ret'.op = "Decode"
          => \A tp \in LengthPayloads, lol \in LengthLols :
                WideFrameDecoded(tp[1], lol, tp[2])
       /\ ret'.op = "DecodeObject"
          => \A fs \in StreamObjects, lol \in LengthLols : WideObjectDecoded(lol, fs)]_vars

\* the same for the frames with two length bytes
C26_TwoLengthBytes ==
    [][/\ ret'.op = "Decode" => \A tp \in LengthPayloads : WideFrameDecoded(tp[1], 2, tp[2])
       /\ ret'.op = "DecodeObject" => \A fs \in StreamObjects : WideObjectDecoded(2, fs)]_vars

\* Decode was given the frame AB 02 04 00 00 00 05 "abcde" CD: it took the
\* length for 0 and the first payload byte for the end marker
C26_LengthReadFromTwoBytes ==
    /\ ret.op = "Decode"
    /\ ret.st = "err"
    /\ ret.why = "marker"
    /\ reader = <<98, 99, 100, 101, EOF>>

(***************************************************************************)
(* SpecEmbedded: the codecs whose payload begins with a 16-bit length,     *)
(* InterfaceCodec and MarshalerCodec, are given payloads whose embedded    *)
(* length is right, too large, or close to 65535.                          *)
(***************************************************************************)
EmbeddedLengths == {0, 1, 4, 5, 255, 65532, 65533, 65534, 65535}

\* the bytes after the header are no more than MaxFollow
MaxFollow == 5

Followers ==
    {SubSeq(f, 1, k) : f \in {Rep(0, 3) \o Rep(7, MaxFollow), Rep(97, 3 + MaxFollow)},
                       k \in 0..MaxFollow}

\* the payloads of InterfaceCodec: a tag, the embedded length, the bytes
\* that follow
InterfacePayloads ==
    {<<tag>> \o U16(length) \o f : tag \in {1, 2, 99}, length \in EmbeddedLengths,
                                   f \in Followers}
       \cup {<<>>, <<1>>, <<1, 0>>}

\* the payloads of MarshalerCodec: the embedded length, the bytes that
\* follow
MarshalerPayloads ==
    {U16(length) \o f : length \in EmbeddedLengths, f \in Followers} \cup {<<>>, <<0>>}

\* the size of the header of the codec and the length embedded in it
HeaderSize(c) == IF c.kind = "InterfaceCodec" THEN 3 ELSE 2
EmbeddedLength(c, data) == BE(SubSeq(data, HeaderSize(c) - 1, HeaderSize(c)))

NextEmbedded ==
    \/ calls = 0 /\ DoRegisterPrimitives
    \/ DoGetTag(<<"Time">>)
    \/ \E data \in InterfacePayloads : DoCodecDecode(18, data)
    \/ \E data \in MarshalerPayloads : DoCodecDecode(FirstStructTag, data)

SpecEmbedded == Init /\ [][NextEmbedded]_vars

\* Decode of a payload whose embedded length, no more than max, exceeds the
\* number of bytes after the header returns an error
LengthChecked(tag, data, max) ==
    (/\ ret'.tag = tag
     /\ ret'.src = Len(data)
     /\ HasCodec(Registry, tag)
     /\ GetCodec(Registry, tag).kind \in {"InterfaceCodec", "MarshalerCodec"}
     /\ Len(data) >= HeaderSize(GetCodec(Registry, tag))
     /\ EmbeddedLength(GetCodec(Registry, tag), data) <= max
     /\ EmbeddedLength(GetCodec(Registry, tag), data)
           > Len(data) - HeaderSize(GetCodec(Registry, tag))
     /\ DoCodecDecode(tag, data))
    => ret'.st = "err"

\* C27: InterfaceCodec.Decode and MarshalerCodec.Decode return an error, and
\* do not slice the payload out of bounds, whenever the embedded 16-bit
\* length exceeds the number of bytes after the header, for every embedded
\* length from 0 to 65535.
C27_EmbeddedLength ==
    [][ret'.op = "Codec.Decode"
         => /\ \A data \in InterfacePayloads : LengthChecked(18, data, U16Mod - 1)
            /\ \A data \in MarshalerPayloads :
                  LengthChecked(FirstStructTag, data, U16Mod - 1)]_vars

\* the same for the embedded lengths that, added to the size of the header,
\* stay below 65536
C27_EmbeddedLengthWithoutWrap ==
    [][ret'.op = "Codec.Decode"
         => /\ \A data \in InterfacePayloads : LengthChecked(18, data, U16Mod - 4)
            /\ \A data \in MarshalerPayloads :
                  LengthChecked(FirstStructTag, data, U16Mod - 3)]_vars

\* InterfaceCodec.Decode sliced a payload of a few bytes out of bounds
C27_SlicedOutOfBounds ==
    /\ ret.op = "Codec.Decode"
    /\ ret.tag = 18
    /\ ret.src <= 3 + MaxFollow
    /\ ret.st = "panic"

(***************************************************************************)
(* SpecTerminates: after start-up, values of the types that                *)
(* RegisterPrimitives binds are encoded, an []interface{} among them.      *)
(***************************************************************************)
\* values of types bound by RegisterPrimitives
BoundValues ==
    {"Int32", "Int32Neg", "Int8Min", "True", "False", "EmptyString", "String", "Float64",
     "AnyMap", "AnyMap2", "AnyMapNil", "AnyMapList", "EmptyAnyMap", "NilAnyMap"}
       \cup ListValues

NextTerminates ==
    \/ calls = 0 /\ DoRegisterPrimitives
    \/ \E name \in BoundValues : \E ord \in OrdersOf(Values[name]) : DoEncode(name, ord)
    \/ \E k \in Cuts : DoDecodeFrame(k)

SpecTerminates == Init /\ [][NextTerminates]_vars

\* Encode of the named value, its type being bound and the primitives
\* registered, returns bytes or an error
Terminates(name, ord) ==
    (/\ enc'.v = name
     /\ Int32T \in DOMAIN types
     /\ Values[name].t \in DOMAIN types
     /\ DoEncode(name, ord))
    => ret'.st \in {"ok", "err"}

\* C28: after RegisterPrimitives, Encoder.Encode returns bytes or an error
\* for every value whose type is bound in the registry, a value of the type
\* []interface{}, bound to tag 18 with the InterfaceCodec, included.
C28_EncodeTerminates ==
    [][ret'.op = "Encode"
         => \A name \in BoundValues : \A ord \in OrdersOf(Values[name]) :
               Terminates(name, ord)]_vars

\* the same for the values that hold no []interface{}
C28_EncodeWithoutListTerminates ==
    [][ret'.op = "Encode"
         => \A name \in {n \in BoundValues : <<"slice", "any">> \notin OccurringTypes(Values[n])} :
               \A ord \in OrdersOf(Values[name]) : Terminates(name, ord)]_vars

\* Encode of an empty []interface{} never returned: the InterfaceCodec,
\* bound to tag 18, looked up the codec of the value and found itself
C28_ListNeverReturns ==
    /\ ret.op = "Encode"
    /\ enc.v = "EmptyAnyList"
    /\ <<"slice", "any">> \in DOMAIN types
    /\ types[<<"slice", "any">>] = 18
    /\ codecs[18].kind = "InterfaceCodec"
    /\ ret.st = "overflow"

(***************************************************************************)
(* SpecFailed: the registry is handed types of which a part resolves and a *)
(* part does not.                                                          *)
(***************************************************************************)
\* a struct with a slice field before a channel field, a map from a struct
\* type to a channel type, a slice and a pointer whose element does not
\* resolve, and types that resolve
FailedTypes ==
    {<<"Mixed">>, <<"map", "Counter", "chan">>, <<"map", "string", "chan">>,
     <<"slice", "chan">>, Ptrs(1, <<"Mixed">>), <<"chan">>, <<"Counter">>, Int32T,
     <<"slice", "int32">>, <<"slice", "Mixed">>, <<"Outer">>, <<"Rec">>, <<"Pair">>,
     <<"map", "string", "int32">>, <<"map", "Counter", "Mixed">>, Ptrs(2, <<"chan">>),
     <<"array2", "Mixed">>, <<"map", "Mixed", "int32">>}

NextFailed ==
    \/ calls = 0 /\ DoRegisterPrimitives
    \/ \E t \in FailedTypes : DoGetTag(t)
    \/ \E t \in FailedTypes : DoRegisterStruct(t)

SpecFailed == Init /\ [][NextFailed]_vars

\* C29: a RegisterStruct or GetTag call that returns an error leaves the
\* registry as it was before the call: the tag-to-codec map, the type-to-tag
\* map and the next tag counter are unchanged.
C29_FailedCallLeavesRegistry ==
    [][(ret'.op \in {"RegisterStruct", "GetTag"} /\ ret'.st = "err")
         => UNCHANGED <<codecs, types, nextStructTag>>]_vars

\* a call that returns an error binds no tag to the type it was given and
\* leaves the bindings made before the call as they were
C29_FailedTypeUnbound ==
    [][(ret'.op \in {"RegisterStruct", "GetTag"} /\ ret'.st = "err")
         => /\ ret'.t \in DOMAIN types' => ret'.t \in DOMAIN types
            /\ \A t \in DOMAIN types : t \in DOMAIN types' /\ types'[t] = types[t]
            /\ \A tag \in DOMAIN codecs : tag \in DOMAIN codecs' /\ codecs'[tag] = codecs[tag]]_vars

\* RegisterStruct of the struct with a slice field before a channel field
\* returned an error, and the slice type is bound to the first tag
C29_FieldBoundByFailedCall ==
    /\ ret.op = "RegisterStruct"
    /\ ret.t = <<"Mixed">>
    /\ ret.st = "err"
    /\ calls = 2
    /\ <<"slice", "int32">> \in DOMAIN types
    /\ types[<<"slice", "int32">>] = FirstStructTag
    /\ nextStructTag = FirstStructTag + 1

(***************************************************************************)
(* SpecLenient: the StructCodec of codec/struct.go, a list of fields each  *)
(* with a tag, a codec and a name, encodes a map[string]any and decodes    *)
(* field TLVs into one.  The field codecs are those of codec/primitives.go.*)
(***************************************************************************)
StructField(tag, codec, name) == [Tag |-> tag, Codec |-> codec, Name |-> name]

\* the descriptor: id, name and score
Fields ==
    <<StructField(1, "Int32Codec", Str(<<105, 100>>)),
      StructField(2, "StringCodec", Str(<<110, 97, 109, 101>>)),
      StructField(3, "Float64Codec", Str(<<115, 99, 111, 114, 101>>))>>

\* obj[name] of a map value, and whether the key is there
HasKey(obj, name) == \E i \in 1..(Len(obj.s) \div 2) : obj.s[2 * i - 1] = name
MapIndex(obj, name) == obj.s[2 * (CHOOSE i \in 1..(Len(obj.s) \div 2) : obj.s[2 * i - 1] = name)]

\* Encode of Int32Codec, StringCodec and Float64Codec: the type assertion,
\* then the bytes
PrimitiveEncode(codec, v) ==
    CASE codec = "Int32Codec" ->
           IF v.t # <<"int32">> THEN DRes("err", <<>>) ELSE DRes("ok", IntBytes(v.n, 4))
      [] codec = "StringCodec" ->
           IF v.t # <<"string">> THEN DRes("err", <<>>) ELSE DRes("ok", v.b)
      [] codec = "Float64Codec" ->
           IF v.t # <<"float64">> THEN DRes("err", <<>>) ELSE DRes("ok", v.b)

\* Decode of Int32Codec (four bytes), StringCodec (any bytes) and
\* Float64Codec (binary.Read of eight bytes)
PrimitiveDecode(codec, b) ==
    CASE codec = "Int32Codec" ->
           IF Len(b) # 4 THEN DErr ELSE DRes("ok", I32(IntOfBytes(b, 4, TRUE)))
      [] codec = "StringCodec" -> DRes("ok", Str(b))
      [] codec = "Float64Codec" ->
           IF Len(b) < 8 THEN DErr ELSE DRes("ok", Bits("float64", SubSeq(b, 1, 8)))

RECURSIVE FieldsEncode(_, _, _)

\* one round of the loop of StructCodec.Encode, data being what the codec
\* of the field returned: tag, 2, uint16(len(data)), data
FieldWritten(fields, obj, buf, data) ==
    IF data.st # "ok" THEN DRes("err", <<>>)
    ELSE FieldsEncode(Tail(fields), obj,
                      buf \o <<Head(fields).Tag, 2>> \o U16(Len(data.v)) \o data.v)

\* the loop of StructCodec.Encode: a field absent from the map is skipped
FieldsEncode(fields, obj, buf) ==
    IF fields = <<>> THEN DRes("ok", buf)
    ELSE IF ~HasKey(obj, Head(fields).Name) THEN FieldsEncode(Tail(fields), obj, buf)
    ELSE FieldWritten(fields, obj, buf,
                      PrimitiveEncode(Head(fields).Codec, MapIndex(obj, Head(fields).Name)))

\* StructCodec.Encode(v): v must be a map[string]any
StructCodecEncode(fields, v) ==
    IF v.t # AnyMapT THEN DRes("err", <<>>) ELSE FieldsEncode(fields, v, <<>>)

\* the bytes of a reader after k of them were read, and a buffer of l bytes
\* after buf.Read filled it with what the reader had left
Skip(b, k) == IF k >= Len(b) THEN <<>> ELSE SubSeq(b, k + 1, Len(b))
ReadInto(b, l) == [i \in 1..l |-> IF i <= Len(b) THEN b[i] ELSE 0]

\* binary.Read of the uint16 l: 0 when fewer than two bytes are left
ReadLength(b) == IF Len(b) < 2 THEN 0 ELSE BE(SubSeq(b, 1, 2))

\* the first field of the descriptor with the tag, 0 if there is none
FieldOfTag(fields, tag) ==
    IF \E i \in 1..Len(fields) : fields[i].Tag = tag
    THEN CHOOSE i \in 1..Len(fields) :
            fields[i].Tag = tag /\ \A j \in 1..(i - 1) : fields[j].Tag # tag
    ELSE 0

RECURSIVE FieldsDecode(_, _, _)

\* the end of a round of the loop of StructCodec.Decode: the field was
\* looked up (i) and its codec decoded the data (val)
FieldRead(fields, after, out, i, val) ==
    IF val.st # "ok" THEN DErr
    ELSE FieldsDecode(fields, after, SetMapIndex(out, fields[i].Name, val.v))

\* a round after the tag byte and the length-of-length byte were read,
\* afterLol being the bytes left: the errors of the reads are not looked at
FieldData(fields, tag, afterLol, out) ==
    IF FieldOfTag(fields, tag) = 0 THEN DErr
    ELSE FieldRead(fields, Skip(afterLol, 2 + ReadLength(afterLol)), out,
                   FieldOfTag(fields, tag),
                   PrimitiveDecode(fields[FieldOfTag(fields, tag)].Codec,
                                   ReadInto(Skip(afterLol, 2), ReadLength(afterLol))))

\* the loop of StructCodec.Decode: while bytes are left
FieldsDecode(fields, rest, out) ==
    IF Len(rest) = 0 THEN DRes("ok", MapOf(AnyMapT, out))
    ELSE FieldData(fields, rest[1], Skip(rest, 2), out)

\* StructCodec.Decode(b)
StructCodecDecode(fields, b) == FieldsDecode(fields, b, <<>>)

\* the entries a map can hold: the fields of the descriptor and a key that
\* is no field
IdEntries == {<<>>, <<Str(<<105, 100>>), I32(7)>>, <<Str(<<105, 100>>), I32(-2)>>}
NameEntries ==
    {<<>>, <<Str(<<110, 97, 109, 101>>), Str(<<>>)>>, <<Str(<<110, 97, 109, 101>>), Str(<<97>>)>>}
OtherEntries == {<<>>, <<Str(<<111>>), I32(1)>>}
ScoreEntries ==
    {<<>>, <<Str(<<115, 99, 111, 114, 101>>),
             Bits("float64", <<64, 9, 33, 251, 84, 68, 45, 24>>)>>}

\* the maps handed to Encode, their keys in order
Objects ==
    {MapOf(AnyMapT, i \o n \o o \o sc) :
       i \in IdEntries, n \in NameEntries, o \in OtherEntries, sc \in ScoreEntries}

\* the maps whose field TLVs are handed to Decode in every order
WrittenObjects ==
    {MapOf(AnyMapT, i \o n \o sc) :
       i \in {<<>>, <<Str(<<105, 100>>), I32(-2)>>},
       n \in {<<>>, <<Str(<<110, 97, 109, 101>>), Str(<<97>>)>>},
       sc \in ScoreEntries}

\* a map whose name is a string of BigLen bytes, a map whose id is a string,
\* and a value that is no map
LongObject == MapOf(AnyMapT, <<Str(<<110, 97, 109, 101>>), Str(Rep(97, BigLen))>>)
OddObjects == {MapOf(AnyMapT, <<Str(<<105, 100>>), Str(<<55>>)>>), I32(7)}

\* obj restricted to the names of the fields
RECURSIVE RestrictedEntries(_, _)
RestrictedEntries(fields, kvs) ==
    IF kvs = <<>> THEN <<>>
    ELSE (IF \E i \in 1..Len(fields) : fields[i].Name = kvs[1]
          THEN <<kvs[1], kvs[2]>> ELSE <<>>)
            \o RestrictedEntries(fields, SubSeq(kvs, 3, Len(kvs)))

Restricted(fields, obj) == MapOf(AnyMapT, RestrictedEntries(fields, obj.s))

\* the TLV of field i of the descriptor holding the value of obj
FieldTLV(fields, i, obj) ==
    <<fields[i].Tag, 2>>
       \o U16(Len(PrimitiveEncode(fields[i].Codec, MapIndex(obj, fields[i].Name)).v))
       \o PrimitiveEncode(fields[i].Codec, MapIndex(obj, fields[i].Name)).v

\* the orders in which the fields that obj holds can be written
FieldOrders(fields, obj) ==
    LET present == {i \in 1..Len(fields) : HasKey(obj, fields[i].Name)}
    IN  {p \in [1..Cardinality(present) -> present] :
           \A a, b \in 1..Cardinality(present) : a # b => p[a] # p[b]}

RECURSIVE OrderedTLVs(_, _, _)
OrderedTLVs(fields, obj, p) ==
    IF p = <<>> THEN <<>>
    ELSE FieldTLV(fields, Head(p), obj) \o OrderedTLVs(fields, obj, Tail(p))

\* a TLV whose tag is the tag of no field
UnknownTLV == <<9, 2, 0, 1, 0>>

\* codec.Encode(v) of the StructCodec returned e
StructCodecEncodeReturns(v, e) ==
    /\ frame' = IF e.st = "ok" THEN e.v ELSE <<>>
    /\ ret' = Ret("StructCodec.Encode", e.st, "", v, 0, NilType, 0)
    /\ UNCHANGED <<codecs, types, nextStructTag, calls, buffer, enc, reader, held, goroutines>>

DoStructCodecEncode(v) == StructCodecEncodeReturns(v, StructCodecEncode(Fields, v))

\* codec.Decode(b) of the StructCodec returned d
StructCodecDecodeReturns(src, d) ==
    /\ ret' = Ret("StructCodec.Decode", d.st, "", d.v, 0, NilType, src)
    /\ UNCHANGED <<codecs, types, nextStructTag, calls, buffer, enc, frame, reader, held,
                   goroutines>>

\* Decode of bytes that no Encode wrote
DoStructCodecDecode(b) == StructCodecDecodeReturns(-1, StructCodecDecode(Fields, b))

\* Decode of the bytes the last Encode returned
DoStructCodecDecodeEncoded ==
    /\ ret.op = "StructCodec.Encode"
    /\ ret.st = "ok"
    /\ StructCodecDecodeReturns(Len(frame), StructCodecDecode(Fields, frame))

\* Decode of the TLVs of the fields of obj in the order p, an unknown TLV
\* put before them, after them or not at all
TLVInput(obj, p, unknown) ==
    CASE unknown = "before" -> UnknownTLV \o OrderedTLVs(Fields, obj, p)
      [] unknown = "after" -> OrderedTLVs(Fields, obj, p) \o UnknownTLV
      [] OTHER -> OrderedTLVs(Fields, obj, p)

NextLenient ==
    \/ \E v \in Objects \cup OddObjects \cup {LongObject} : DoStructCodecEncode(v)
    \/ DoStructCodecDecodeEncoded
    \/ \E obj \in WrittenObjects : \E p \in FieldOrders(Fields, obj) :
          \E unknown \in {"before", "after", "none"} :
             DoStructCodecDecode(TLVInput(obj, p, unknown))

SpecLenient == Init /\ [][NextLenient]_vars

\* Decode of the field TLVs of obj in the order p: with an unknown TLV among
\* them an error, otherwise the map of the fields of obj
LenientDecoded(obj, p, unknown) ==
    DoStructCodecDecode(TLVInput(obj, p, unknown))
    => IF unknown # "none" THEN ret'.st = "err"
       ELSE ret'.st = "ok" /\ ret'.v = Restricted(Fields, obj)

\* Decode of the bytes that Encode returned for the map v returns v
\* restricted to the names of the fields
RoundTripRestricted ==
    DoStructCodecDecodeEncoded => ret'.st = "ok" /\ ret'.v = Restricted(Fields, ret.v)

\* C30: StructCodec.Decode of codec/struct.go accepts the field TLVs of an
\* object in any order and with any fields left out and returns the map of
\* exactly the fields present; a TLV whose tag is the tag of no field is an
\* error; and Decode(Encode(obj)) is obj restricted to the names of the
\* fields.
C30_LenientStructDecode ==
    [][ret'.op = "StructCodec.Decode"
         => /\ ret'.src >= 0 => RoundTripRestricted
            /\ ret'.src < 0
               => \A obj \in WrittenObjects : \A p \in FieldOrders(Fields, obj) :
                     \A unknown \in {"before", "after", "none"} :
                        LenientDecoded(obj, p, unknown)]_vars

\* the same for the maps whose encoded field values are shorter than 65536
\* bytes
C30_LenientBelowLimit ==
    [][ret'.op = "StructCodec.Decode"
         => /\ (ret'.src >= 0 /\ ret.v # LongObject) => RoundTripRestricted
            /\ ret'.src < 0
               => \A obj \in WrittenObjects : \A p \in FieldOrders(Fields, obj) :
                     \A unknown \in {"before", "after", "none"} :
                        LenientDecoded(obj, p, unknown)]_vars

\* the map with a name of BigLen bytes was encoded and Decode of the bytes
\* returned an error
C30_LongNameNotDecoded ==
    /\ ret.op = "StructCodec.Decode"
    /\ ret.src = 4 + BigLen
    /\ ret.st = "err"

(***************************************************************************)
(* SpecTypes: codecs are taken from the registry by tag and handed values  *)
(* of any type.                                                            *)
(***************************************************************************)
Int32SliceT == <<"slice", "int32">>

\* the composite types resolved before the codecs are used
TypesResolved == {Int32SliceT, Ptrs(1, Int32T), Array2T, MapT, <<"Counter">>}

\* the values handed to the codecs
TypeValues ==
    {"Int32", "Int8Min", "String", "True", "Slice", "EmptySlice", "StringSlice", "Array",
     "Map", "EmptyMap", "Pointer", "StructPtr", "Counter", "Empty"}

\* the kinds of codec C8 is about
TypedCodecs ==
    DOMAIN IntCodecs \cup DOMAIN BitsCodecs
       \cup {"BoolCodec", "StringCodec", "StructCodec", "SliceCodec", "ArrayCodec", "MapCodec",
             "PointerCodec", "MarshalerCodec"}

NextTypes ==
    \/ DoRegisterPrimitives
    \/ \E t \in TypesResolved : DoGetTag(t)
    \/ \E tag \in DOMAIN codecs : \E name \in TypeValues :
          DoCodecEncode(tag, Values[name], <<1, 2>>)

SpecTypes == Init /\ [][NextTypes]_vars

\* the codec bound to ret.tag was handed a value of another type than the
\* type bound to that tag
WrongTyped ==
    /\ ret.op = "Codec.Encode"
    /\ codecs[ret.tag].kind \in TypedCodecs
    /\ \A t \in DOMAIN types : types[t] = ret.tag => t # ret.t

\* C8: Encode of a primitive, struct, slice, array, map, pointer or
\* marshaler codec of the registry, handed a value whose type is not the type
\* the codec is bound to, returns an error and no bytes.
C8_TypeSafety == WrongTyped => (ret.st = "err" /\ ret.src = 0)

\* the codec of []int32 encoded an empty []string as the four bytes of the
\* count 0
C8_EmptySliceOfStrings ==
    /\ WrongTyped
    /\ Int32SliceT \in DOMAIN types
    /\ ret.tag = types[Int32SliceT]
    /\ ret.v = Values["StringSlice"]
    /\ ret.st = "ok"
    /\ ret.src = 4

(***************************************************************************)
(* SpecRegistry: RegisterPrimitives, RegisterStruct and GetTag in any      *)
(* order on one registry.                                                  *)
(***************************************************************************)
Int8SliceT == <<"slice", "int8">>

\* the types of the examples handed to RegisterStruct
StructTypes ==
    {<<"Counter">>, <<"ptr", "Counter">>, <<"Pair">>, <<"Outer">>, <<"Empty">>, <<"Wide">>,
     Int32T}

\* the types of the values handed to GetTag
TagTypes ==
    {Int32T, Ptrs(1, Int32T), Int8SliceT, Array2T, MapT, <<"Pair">>, <<"Rec">>,
     <<"Location">>, <<"chan">>, NilType}

NextRegistry ==
    \/ DoRegisterPrimitives
    \/ \E t \in StructTypes : DoRegisterStruct(t)
    \/ \E t \in TagTypes : DoGetTag(t)

SpecRegistry == Init /\ [][NextRegistry]_vars

\* the type a registry call resolves: RegisterStruct takes a pointer to a
\* struct for the struct
Resolved(r) ==
    IF r.op = "RegisterStruct" /\ r.t # NilType /\ Kind(r.t) = "ptr" THEN Elem(r.t) ELSE r.t

\* the types a step binds that were not bound before it
NewTypes == DOMAIN types' \ DOMAIN types

\* C5: across every RegisterPrimitives, RegisterStruct or GetTag call the
\* next auto-assigned tag never decreases, and every type the call binds by
\* auto-assignment gets a tag from 200 on, outside 1..20, not bound to a codec
\* before the call, and not given to another type bound by the same call.
C5_AutoTagsIncreaseFrom200 ==
    [][ret'.op \in {"RegisterStruct", "GetTag"} =>
          /\ nextStructTag' >= nextStructTag
          /\ \A t \in NewTypes :
                /\ types'[t] >= FirstStructTag
                /\ types'[t] \notin 1..20
                /\ types'[t] \notin DOMAIN codecs
                /\ \A u \in NewTypes : types'[u] = types'[t] => u = t]_vars

\* registering Wide allocates more than 56 tags: the 57th is 0, the 58th is 1,
\* where int32 was, and the counter is below 200
C5_TagCounterWrapped ==
    /\ ret.op = "RegisterStruct"
    /\ ret.st = "ok"
    /\ ret.t = <<"Wide">>
    /\ nextStructTag < FirstStructTag
    /\ \E t \in DOMAIN types : t # Int32T /\ types[t] = 1
    /\ codecs[1].kind # "Int32Codec"

CodecArgs ==
    {[tag |-> 1, codec |-> Plain("StringCodec"), t |-> StringT],
     [tag |-> 30, codec |-> Plain("Int32Codec"), t |-> Int32T],
     [tag |-> 31, codec |-> Plain("BoolCodec"), t |-> <<"Flag">>],
     [tag |-> FirstStructTag, codec |-> Plain("BoolCodec"), t |-> <<"Flag">>]}

NextRegisterCodec ==
    \/ DoRegisterPrimitives
    \/ \E t \in {<<"Counter">>, <<"Pair">>} : DoRegisterStruct(t)
    \/ \E t \in {Int32T, StringT, Ptrs(1, Int32T), <<"Flag">>} : DoGetTag(t)
    \/ \E a \in CodecArgs : DoRegisterCodec(a.tag, a.codec, a.t)

SpecRegisterCodec == Init /\ [][NextRegisterCodec]_vars

\* C7: a RegisterCodec call leaves every tag that was bound with the codec it
\* had and every type that was bound with the tag it had.
C7_FirstRegistrationWins ==
    [][ret'.op = "RegisterCodec" =>
          /\ \A tag \in DOMAIN codecs : codecs'[tag] = codecs[tag]
          /\ \A t \in DOMAIN types : types'[t] = types[t]]_vars

\* after RegisterPrimitives, RegisterCodec(1, StringCodec, "") has replaced
\* the Int32Codec at tag 1 and moved string from tag 2 to tag 1
C7_LastRegistrationWon ==
    /\ ret.op = "RegisterCodec"
    /\ {1, 2} \subseteq DOMAIN codecs
    /\ {StringT, Int32T} \subseteq DOMAIN types
    /\ codecs[1].kind = "StringCodec"
    /\ types[StringT] = 1
    /\ types[Int32T] = 1
    /\ codecs[2].kind = "StringCodec"

====
